---- MODULE Spec2Model ----
(***************************************************************************)
(* Model of the HPSC inter-subsystem messaging stack of linux-hpsc:        *)
(*   - the mailbox controller (drivers/mailbox/hpsc-mailbox.c),            *)
(*   - the user-space mailbox client (drivers/soc/hpsc/hpsc-mbox-          *)
(*     userspace.c) and the in-kernel client (hpsc-mbox-kernel.c),         *)
(*   - the shared-memory transport, the notification bus (hpsc-notif.c)    *)
(*     and the system-message layer (hpsc-msg.c).                          *)
(* Every handler that runs under a spinlock is one atomic action.          *)
(***************************************************************************)
EXTENDS Integers, Sequences, FiniteSets, TLC

\* ------------------------------------------------------------------------
\* Program constants
\* ------------------------------------------------------------------------
HPSC_MSG_SIZE == 64
HPSC_MSG_PAYLOAD_OFFSET == 4
HPSC_MSG_PAYLOAD_SIZE == HPSC_MSG_SIZE - 4
HPSC_MBOX_DATA_REGS == 16
MBOX_MAX_MSG_LEN == HPSC_MBOX_DATA_REGS * 4

\* enum hpsc_msg_type
NOP == 0
PING == 1
PONG == 2
WATCHDOG_TIMEOUT == 11
LIFECYCLE == 13
MSG_ACTION == 14
HPSC_MSG_TYPE_COUNT == 15

\* enum hpsc_msg_lifecycle_status
LIFECYCLE_UP == 0
LIFECYCLE_DOWN == 1

\* errno values used by the drivers
EIO == 5
EAGAIN == 11
EBUSY == 16
ENODEV == 19
EINVAL == 22
EPIPE == 32
ENOBUFS == 105

\* notifier return codes
NOTIFY_DONE == 0
NOTIFY_OK == 1
NOTIFY_STOP_MASK == 32768
NOTIFY_STOP == NOTIFY_OK + NOTIFY_STOP_MASK

\* enum hpsc_notif_priority: SHMEM is the first enumerator, MAILBOX the second
HPSC_NOTIF_PRIORITY_SHMEM == 0
HPSC_NOTIF_PRIORITY_MAILBOX == 1
HPSC_NOTIF_PRIORITY_COUNT == 2

\* shared-memory region status bits
HPSC_SHMEM_STATUS_BIT_NEW == 1
HPSC_SHMEM_STATUS_BIT_ACK == 2

\* mailbox events
HPSC_MBOX_EVENT_A == 1
HPSC_MBOX_EVENT_B == 2

\* ------------------------------------------------------------------------
\* Bounds of the model
\* ------------------------------------------------------------------------
\* module parameter "retries" of hpsc-notif (default RETRIES_DEFAULT = 10)
retries == 2
\* opens of the user device attempted at the same time
MaxOpens == 2
\* writes the model follows on the user device between two tx-done interrupts
MaxInflight == 2
\* largest seed of the payload patterns of the envelopes the remote sends
MaxSeed == 1
\* longest formatted info text handed to hpsc_msg_lifecycle
MaxInfo == 57
\* largest watchdog id (one watchdog per cpu), and pretimeouts per watchdog
MaxCpu == 2
MaxWdt == 2
\* messages the remote publishes in the in region in one run
MaxPub == 2
\* devices per transport that bring a notifier block to the bus
MaxDev == 2
\* threads that call poll(2) on the user device
MaxPoll == 1

\* ------------------------------------------------------------------------
\* Bit arithmetic on non-negative integers
\* ------------------------------------------------------------------------
RECURSIVE BitAnd(_, _)
BitAnd(a, b) ==
    IF a = 0 \/ b = 0 THEN 0
    ELSE (IF a % 2 = 1 /\ b % 2 = 1 THEN 1 ELSE 0) + 2 * BitAnd(a \div 2, b \div 2)

RECURSIVE BitOr(_, _)
BitOr(a, b) ==
    IF a = 0 THEN b
    ELSE IF b = 0 THEN a
    ELSE (IF a % 2 = 1 \/ b % 2 = 1 THEN 1 ELSE 0) + 2 * BitOr(a \div 2, b \div 2)

BitClear(a, m) == a - BitAnd(a, m)

\* ------------------------------------------------------------------------
\* Envelopes: 64 bytes, byte k of the C buffer is element k+1
\* ------------------------------------------------------------------------
Byte == 0..255

\* HPSC_MSG_DEFINE(name): u8 name[HPSC_MSG_SIZE] = {0}
ZeroMsg == [k \in 1..HPSC_MSG_SIZE |-> 0]

\* little-endian bytes of a u32 (values below 2^31)
U32LE(v) == << v % 256, (v \div 256) % 256, (v \div 65536) % 256, (v \div 16777216) % 256 >>

\* memcpy(&dst[off], src, Len(src))
MemcpyAt(dst, off, src) ==
    [k \in 1..Len(dst) |->
        IF k > off /\ k <= off + Len(src) THEN src[k - off] ELSE dst[k]]

\* msg_send builds the envelope: zeroed buffer, type tag, payload at offset 4
MsgBuild(t, payload) ==
    MemcpyAt([ZeroMsg EXCEPT ![1] = t], HPSC_MSG_PAYLOAD_OFFSET, payload)

\* hpsc_msg_wdt_timeout: payload is the cpu id (unsigned int)
WdtMsg(cpu) == MsgBuild(WATCHDOG_TIMEOUT, U32LE(cpu))

\* vsnprintf(p.info, LIFECYCLE_INFO_SIZE - 1, ...): at most size-1 characters
\* are stored, followed by a nul; the rest of info stays zero
LIFECYCLE_INFO_SIZE == HPSC_MSG_PAYLOAD_SIZE - 4

Vsnprintf(size, str) ==
    IF size = 0 THEN << >>
    ELSE IF Len(str) <= size - 1 THEN str
    ELSE SubSeq(str, 1, size - 1)

\* hpsc_msg_lifecycle: struct { u32 status; char info[56]; }
LifecyclePayload(status, info) ==
    LET text == Vsnprintf(LIFECYCLE_INFO_SIZE - 1, info)
    IN  U32LE(status) \o
        [k \in 1..LIFECYCLE_INFO_SIZE |-> IF k <= Len(text) THEN text[k] ELSE 0]

LifecycleMsg(status, info) == MsgBuild(LIFECYCLE, LifecyclePayload(status, info))

\* A u32 is kept as its two 16-bit halves << low, high >>
LoadU32(buf, i) ==
    << buf[4 * i + 1] + 256 * buf[4 * i + 2], buf[4 * i + 3] + 256 * buf[4 * i + 4] >>

ByteOfU32(w, j) ==
    IF j = 0 THEN w[1] % 256
    ELSE IF j = 1 THEN w[1] \div 256
    ELSE IF j = 2 THEN w[2] % 256
    ELSE w[2] \div 256

\* msgcpy with its loop one word short: the last word of the destination is
\* left as it was
msgcpy_short(src) ==
    [k \in 1..HPSC_MSG_SIZE |->
        IF k > HPSC_MSG_SIZE - 4 THEN 0
        ELSE ByteOfU32(LoadU32(src, (k - 1) \div 4), (k - 1) % 4)]

\* msgcpy: copy the envelope one 32-bit word at a time
msgcpy(src) ==
    [k \in 1..HPSC_MSG_SIZE |-> ByteOfU32(LoadU32(src, (k - 1) \div 4), (k - 1) % 4)]

\* msg_cb_ping builds the reply: a copy of the request with byte 0 = PONG
PongOf(msg) == [msgcpy(msg) EXCEPT ![1] = PONG]

\* the envelope the remote sends: tag, then byte k = (seed * k) mod 256
RemoteMsg(tag, seed) ==
    [k \in 1..HPSC_MSG_SIZE |-> IF k = 1 THEN tag ELSE (seed * (k - 1)) % 256]

RemoteTags == (0..HPSC_MSG_TYPE_COUNT) \cup {255}
RemoteMsgs == { RemoteMsg(t, s) : t \in RemoteTags, s \in 0..MaxSeed }

\* what in-kernel callers send: LIFECYCLE(UP) from hpsc_monitor_up and a
\* watchdog timeout for cpu 3
CallerMsgs == { LifecycleMsg(LIFECYCLE_UP, << >>), WdtMsg(3) }

\* ------------------------------------------------------------------------
\* State
\* ------------------------------------------------------------------------
\* mailbox instances used in the model: the user device's instance, and the
\* outbound and inbound instance of the in-kernel client
Inst == {"U", "KO", "KI"}
KInst == {"KO", "KI"}
Transports == {"SHMEM", "MAILBOX"}
\* the contexts hpsc_notif_send is called from: an in-kernel caller (the
\* monitor), the mailbox receive up-call and the shared-memory poll task
Ctx == {"caller", "mboxrx", "shmrx"}
RxCtx == {"mboxrx", "shmrx"}

VARIABLES
    hw,         \* per instance: EVENT status bits, INT-ENABLE, DATA registers
    link,       \* per instance: the client attached to the channel, if any
    isr,        \* per instance: the receive ISR between its up-call and its clear
    rWait,      \* per instance: the remote sent a message and waits for its ack
    kdev,       \* in-kernel client: struct mbox_chan_dev for KO and KI
    handlers,   \* transports registered on the notifier chain
    shmIn,      \* shared-memory region read by the poll task
    shmOut,     \* shared-memory region written by the transport's send
    shmTask,    \* the poll task exists (kthread_run .. kthread_stop)
    snd,        \* per context: the hpsc_notif_send call in progress
    rx,         \* per receive context: the message being dispatched
    acks,       \* per instance: event-B pulses issued since the last accepted message
    udev,       \* user device: struct mbox_chan_dev
    ufiles,     \* the open files of the user device: f_mode and f_pos of each
    got,        \* per instance: a message was accepted since the channel was opened
    oops,       \* the kernel faulted while holding the user device's lock
    uInbound,   \* wiring of the user instance: TRUE when the remote is the sender
    inflight,   \* per instance: payloads sent since the channel was opened or tx-done arrived
    ulast,      \* result of the last file operation on the user device
    rmsg,       \* the envelope the remote sends in this run
    enc,        \* a call of hpsc_msg_lifecycle: its arguments and the envelope built
    wdt,        \* hpsc_monitor_wdt: is_in_poweroff and each cpu's notification
    probe,      \* hpsc_mbox_client_kernel_probe: its position and the locks it holds
    shm,        \* shared status words: the loads in flight and the messages counted
    bus,        \* registrations on the notification bus, by notifier block
    wq,         \* chan->wq of the user device: the threads inside poll(2)
    mb,         \* a bank of the mailbox controller: CONFIG, EVENT, INT-ENABLE and the ISR scan
    kt          \* the poll task of the shared-memory transport and its teardown

vars == << hw, link, isr, rWait, kdev, handlers, shmIn, shmOut, shmTask, snd, rx,
           acks, udev, ufiles, got, oops, uInbound, inflight, ulast, rmsg, enc, wdt, probe, shm, bus, wq, mb, kt >>

userVars == << udev, ufiles, oops, uInbound, ulast, rmsg >>

auxVars == << enc, wdt, probe, shm, bus, wq, mb, kt >>

\* interrupt indices of the bank (DT properties interrupt-idx-rcv/-ack)
rcv_int_idx == 0
ack_int_idx == 1
HPSC_MBOX_INT_A(idx) == 2 ^ (2 * idx)
HPSC_MBOX_INT_B(idx) == 2 ^ (2 * idx + 1)

HasBit(v, m) == BitAnd(v, m) # 0

NoClient == [attached |-> FALSE, rx_callback |-> FALSE, tx_done |-> FALSE]

SndIdle == [pc |-> "idle", i |-> 0, nr_calls |-> 0, ret |-> 0, msg |-> ZeroMsg,
            last |-> << >>]
RxIdle == [pc |-> "idle", msg |-> ZeroMsg, cb |-> "none", ret |-> 0, sent |-> 0]

KdevClosed == [channel |-> FALSE, send_ack |-> FALSE, send_rc |-> 0]

EncIdle == [pc |-> "idle", status |-> 0, info |-> << >>, msg |-> ZeroMsg]

Cpus == 0..MaxCpu

WdtInit == [is_in_poweroff |-> 0, poweroffs |-> 0,
            pc |-> [c \in Cpus |-> "idle"],
            n |-> [c \in Cpus |-> 0],
            sent |-> [c \in Cpus |-> 0],
            last |-> [c \in Cpus |-> ZeroMsg]]

\* the poll task and the remote between the statements that update a status
\* word; the counters are of messages published, dispatched, accepted by
\* hpsc_msg_tp_shmem_send and observed by the remote
ShmInit == [lpc |-> "idle", ltmp |-> 0, rpc |-> "idle", rtmp |-> 0,
            pub |-> 0, disp |-> 0, acc |-> 0, obs |-> 0]

\* hpsc_mbox_client_kernel_probe before its loop: no cdev->lock taken yet
\* struct notifier_block: the device that owns it and its priority
NotifBlocks ==
    [dev : 0..(MaxDev - 1),
     priority : {HPSC_NOTIF_PRIORITY_SHMEM, HPSC_NOTIF_PRIORITY_MAILBOX}]
NoBlock == [dev |-> MaxDev, priority |-> HPSC_NOTIF_PRIORITY_COUNT]

\* the bus before any registration: the notifier chain of hpsc-notif.c, the
\* handlers[] table of the earlier file, the blocks whose owner has
\* registered, and the last call with its return value from each
BusInit ==
    [chain |-> << >>,
     table |-> [p \in 0..(HPSC_NOTIF_PRIORITY_COUNT - 1) |-> NoBlock],
     live |-> {}, op |-> "none", nb |-> NoBlock, ret |-> 0, tret |-> 0]

\* threads calling poll(2)
PollThreads == 1..MaxPoll
\* no thread is inside poll(2)
WqInit == [t \in PollThreads |-> [st |-> "out", events |-> 0]]

ProbeInit == [pc |-> "request_KO", lock |-> {}, stuck |-> FALSE, ret |-> 0]

UdevInit == [channel |-> FALSE, incoming |-> FALSE, rx_msg_pending |-> FALSE,
             send_ack |-> FALSE, send_rc |-> 0, message |-> ZeroMsg]

\* the poll task before hpsc_msg_tp_shmem_probe: not created, no stop
\* requested; after counts the messages dispatched and wakes the wake-ups
\* taken since kthread_stop was called
KtInit == [pc |-> "none", stop |-> FALSE, rm |-> "none", after |-> 0, wakes |-> 0]

\* instances of the bank the model follows (HPSC_MBOX_INSTANCES is 32)
NumChans == 2
MbInst == 0..(NumChans - 1)

\* a bank after hpsc_mbox_probe: registers at reset, no client on any link
MbScanIdle == [pc |-> "idle", event |-> 0, i |-> 0]
NoDt == [owner |-> 0, src |-> 0, dest |-> 0]
MbInit ==
    [reg |-> [i \in MbInst |-> [config |-> 0, cause |-> 0, ie |-> 0]],
     chan |-> [i \in MbInst |-> NoDt],
     cl |-> [i \in MbInst |-> NoClient],
     res |-> [i |-> 0, ret |-> 0, at |-> "none"],
     scan |-> MbScanIdle,
     calls |-> << >>]

\* the state after boot, before any driver is probed or any device opened
Boot(m, ui) ==
    /\ hw = [n \in Inst |-> [cause |-> 0, ie |-> 0, data |-> ZeroMsg]]
    /\ link = [n \in Inst |-> NoClient]
    /\ isr = [n \in Inst |-> "idle"]
    /\ rWait = [n \in Inst |-> FALSE]
    /\ kdev = [n \in KInst |-> KdevClosed]
    /\ handlers = {}
    /\ shmIn = [data |-> ZeroMsg, status |-> 0]
    /\ shmOut = [data |-> ZeroMsg, status |-> 0]
    /\ shmTask = FALSE
    /\ snd = [c \in Ctx |-> SndIdle]
    /\ rx = [c \in RxCtx |-> RxIdle]
    /\ acks = [n \in Inst |-> 0]
    /\ udev = UdevInit
    /\ ufiles = << >>
    /\ got = [n \in Inst |-> FALSE]
    /\ oops = FALSE
    /\ uInbound = ui
    /\ inflight = [n \in Inst |-> 0]
    /\ ulast = [op |-> "none", ret |-> 0, data |-> << >>]
    /\ rmsg = m
    /\ enc = EncIdle
    /\ wdt = WdtInit
    /\ probe = ProbeInit
    /\ shm = ShmInit
    /\ bus = BusInit
    /\ wq = WqInit
    /\ mb = MbInit
    /\ kt = KtInit

Init == Boot(ZeroMsg, TRUE)

InitRecv == \E m \in RemoteMsgs : Boot(m, TRUE)

InitUser == \E ui \in BOOLEAN : Boot(RemoteMsg(PING, MaxSeed), ui)

\* ------------------------------------------------------------------------
\* Mailbox controller (hpsc-mailbox.c), one instance's registers at a time
\* ------------------------------------------------------------------------
\* the operations of hpsc_mbox_chan_ops: startup, shutdown, send_data
ChanOps == {"startup", "shutdown", "send_data"}

\* hpsc_mbox_send_data with a payload: 16 words to DATA, then EVENT-SET = A
SendPayload(h, msg) ==
    [h EXCEPT !.data = msg, !.cause = BitOr(@, HPSC_MBOX_EVENT_A)]

\* hpsc_mbox_send_data with a NULL message: EVENT-SET = B
SendNull(h) == [h EXCEPT !.cause = BitOr(@, HPSC_MBOX_EVENT_B)]

\* hpsc_mbox_startup: enable the interrupts the client has callbacks for
hpsc_mbox_startup(h, cl) ==
    LET ie1 == IF cl.rx_callback THEN BitOr(h.ie, HPSC_MBOX_INT_A(rcv_int_idx)) ELSE h.ie
        ie2 == IF cl.tx_done THEN BitOr(ie1, HPSC_MBOX_INT_B(ack_int_idx)) ELSE ie1
    IN  [h EXCEPT !.ie = ie2]

\* hpsc_mbox_shutdown: clear both interrupt-enable bits of the bank's indices
hpsc_mbox_shutdown(h) ==
    [h EXCEPT !.ie = BitClear(BitClear(@, HPSC_MBOX_INT_A(rcv_int_idx)),
                              HPSC_MBOX_INT_B(ack_int_idx))]

\* mbox_client_peek_data reaches the controller only through a peek_data
\* operation of the controller
PeekPulses == IF "peek_data" \in ChanOps THEN 1 ELSE 0
mbox_client_peek_data(h) == IF "peek_data" \in ChanOps THEN SendNull(h) ELSE h

\* ------------------------------------------------------------------------
\* System-message dispatcher (hpsc-msg.c)
\* ------------------------------------------------------------------------
\* msg_cbs: the handler of each type tag
msg_cbs(t) ==
    IF t = NOP THEN "msg_cb_nop"
    ELSE IF t = PING THEN "msg_cb_ping"
    ELSE IF t = PONG THEN "msg_cb_pong"
    ELSE "msg_cb_drop"

\* hpsc_msg_process with the range check off by one (t > HPSC_MSG_TYPE_COUNT)
ProcessCb_offbyone(msg) ==
    IF msg[1] < 0 \/ msg[1] > HPSC_MSG_TYPE_COUNT THEN "none" ELSE msg_cbs(msg[1])

\* hpsc_msg_process: the handler invoked for an envelope, "none" if the tag
\* is out of range
ProcessCb(msg) ==
    IF msg[1] < 0 \/ msg[1] >= HPSC_MSG_TYPE_COUNT THEN "none" ELSE msg_cbs(msg[1])

\* hpsc_msg_process: return value (every handler returns 0)
hpsc_msg_process(msg) == IF ProcessCb(msg) = "none" THEN 0 - EINVAL ELSE 0

\* ------------------------------------------------------------------------
\* Notification bus (hpsc-notif.c) and its transports
\* ------------------------------------------------------------------------
Priority(tp) ==
    IF tp = "SHMEM" THEN HPSC_NOTIF_PRIORITY_SHMEM ELSE HPSC_NOTIF_PRIORITY_MAILBOX

\* atomic_notifier_chain_register keeps the chain sorted, highest priority first
RECURSIVE ChainOrder(_)
ChainOrder(hs) ==
    IF hs = {} THEN << >>
    ELSE LET top == CHOOSE t \in hs : \A u \in hs : Priority(t) >= Priority(u)
         IN  << top >> \o ChainOrder(hs \ {top})

\* is_new taking every status word for one with NEW set
is_new_always(reg) == TRUE

\* is_new: the NEW bit of a region's status word
is_new(reg) == HasBit(reg.status, HPSC_SHMEM_STATUS_BIT_NEW)

\* hpsc_msg_tp_shmem_send without the test of the NEW bit
ShmemSendRet_nocheck == NOTIFY_STOP

\* hpsc_msg_tp_shmem_send: return value
ShmemSendRet == IF is_new(shmOut) THEN BitOr(NOTIFY_STOP_MASK, EAGAIN) ELSE NOTIFY_STOP

\* hpsc_mbox_client_kernel_send without the test of send_ack
hpsc_mbox_client_kernel_send_nocheck(fail) == IF fail THEN 0 - EIO ELSE 0

\* hpsc_mbox_client_kernel_send: return value; fail is a failure of
\* mbox_send_message
hpsc_mbox_client_kernel_send(fail) ==
    IF ~ kdev["KO"].send_ack THEN 0 - EAGAIN
    ELSE IF fail THEN 0 - EIO
    ELSE 0

\* the mailbox transport's notifier call: NOTIFY_STOP on success,
\* NOTIFY_STOP_MASK | EAGAIN to ask for a retry, a positive error otherwise
MboxSendRet(fail) ==
    LET r == hpsc_mbox_client_kernel_send(fail)
    IN  IF r >= 0 THEN NOTIFY_STOP
        ELSE IF r = 0 - EAGAIN THEN BitOr(NOTIFY_STOP_MASK, EAGAIN)
        ELSE 0 - r

TransportRet(tp, fail) == IF tp = "SHMEM" THEN ShmemSendRet ELSE MboxSendRet(fail)

\* notifier_call_chain: call the handlers in order until one returns a value
\* with NOTIFY_STOP_MASK set; the result lists << transport, return value >>
RECURSIVE notifier_call_chain(_, _)
notifier_call_chain(order, fail) ==
    IF order = << >> THEN << >>
    ELSE LET r == TransportRet(Head(order), fail)
         IN  IF HasBit(r, NOTIFY_STOP_MASK)
             THEN << << Head(order), r >> >>
             ELSE << << Head(order), r >> >> \o notifier_call_chain(Tail(order), fail)

ChainRet(walk) == IF walk = << >> THEN NOTIFY_DONE ELSE walk[Len(walk)][2]

Accepted(walk, tp) == \E k \in 1..Len(walk) : walk[k] = << tp, NOTIFY_STOP >>

\* the return value the retry loop of hpsc_notif_send compares with
RetryCode == BitAnd(NOTIFY_STOP_MASK, EAGAIN)

\* hpsc_notif_send without the test of nr_calls
SendStep_nocount(s, walk) ==
    LET ret == ChainRet(walk)
        n == s.nr_calls + Len(walk)
        t == [s EXCEPT !.nr_calls = n, !.last = walk]
    IN  IF ret = NOTIFY_STOP THEN [t EXCEPT !.pc = "done", !.ret = 0]
        ELSE IF ret # RetryCode THEN [t EXCEPT !.pc = "done", !.ret = ret]
        ELSE IF s.i < retries THEN [t EXCEPT !.i = s.i + 1, !.ret = ret]
        ELSE [t EXCEPT !.pc = "done", !.ret = ret]

\* hpsc_notif_send taking every return value with NOTIFY_STOP_MASK set for
\* success
SendStep_anystop(s, walk) ==
    LET ret == ChainRet(walk)
        n == s.nr_calls + Len(walk)
        t == [s EXCEPT !.nr_calls = n, !.last = walk]
    IN  IF HasBit(ret, NOTIFY_STOP_MASK) THEN [t EXCEPT !.pc = "done", !.ret = 0]
        ELSE IF n = 0 THEN [t EXCEPT !.pc = "done", !.ret = 0 - ENODEV]
        ELSE IF ret # RetryCode THEN [t EXCEPT !.pc = "done", !.ret = ret]
        ELSE IF s.i < retries THEN [t EXCEPT !.i = s.i + 1, !.ret = ret]
        ELSE [t EXCEPT !.pc = "done", !.ret = ret]

\* hpsc_notif_send after one pass of its loop: the call's next state
SendStep(s, walk) ==
    LET ret == ChainRet(walk)
        n == s.nr_calls + Len(walk)
        t == [s EXCEPT !.nr_calls = n, !.last = walk]
    IN  IF ret = NOTIFY_STOP THEN [t EXCEPT !.pc = "done", !.ret = 0]
        ELSE IF n = 0 THEN [t EXCEPT !.pc = "done", !.ret = 0 - ENODEV]
        ELSE IF ret # RetryCode THEN [t EXCEPT !.pc = "done", !.ret = ret]
        ELSE IF s.i < retries THEN [t EXCEPT !.i = s.i + 1, !.ret = ret]
        ELSE [t EXCEPT !.pc = "done", !.ret = ret]

\* one pass of the loop of hpsc_notif_send in context c
SendAttempt(c) ==
    /\ snd[c].pc = "loop"
    /\ \E fail \in BOOLEAN :
        LET walk == notifier_call_chain(ChainOrder(handlers), fail)
        IN  /\ snd' = [snd EXCEPT ![c] = SendStep(snd[c], walk)]
            /\ IF Accepted(walk, "SHMEM")
               THEN shmOut' = [data |-> snd[c].msg,
                               status |-> BitOr(shmOut.status, HPSC_SHMEM_STATUS_BIT_NEW)]
               ELSE UNCHANGED shmOut
            /\ IF Accepted(walk, "MAILBOX")
               THEN /\ hw' = [hw EXCEPT !["KO"] = SendPayload(@, snd[c].msg)]
                    /\ kdev' = [kdev EXCEPT !["KO"].send_ack = FALSE, !["KO"].send_rc = 0]
                    /\ inflight' = [inflight EXCEPT !["KO"] = @ + 1]
               ELSE UNCHANGED << hw, kdev, inflight >>
    /\ UNCHANGED << got, link, isr, rWait, handlers, shmIn, shmTask, rx, acks >>
    /\ UNCHANGED userVars
    /\ UNCHANGED auxVars

\* an in-kernel caller (msg_send) hands an envelope to hpsc_notif_send
CallerSend(m) ==
    /\ snd["caller"].pc = "idle"
    /\ snd' = [snd EXCEPT !["caller"] = [SndIdle EXCEPT !.pc = "loop", !.msg = m]]
    /\ UNCHANGED << got, hw, link, isr, rWait, kdev, handlers, shmIn, shmOut, shmTask, rx,
                    acks, inflight >>
    /\ UNCHANGED userVars
    /\ UNCHANGED auxVars

\* hpsc_notif_send has returned to the caller
CallerReturn ==
    /\ snd["caller"].pc = "done"
    /\ snd' = [snd EXCEPT !["caller"] = SndIdle]
    /\ UNCHANGED << got, hw, link, isr, rWait, kdev, handlers, shmIn, shmOut, shmTask, rx,
                    acks, inflight >>
    /\ UNCHANGED userVars
    /\ UNCHANGED auxVars

\* ------------------------------------------------------------------------
\* Receive paths into the dispatcher
\* ------------------------------------------------------------------------
\* hpsc_notif_recv -> hpsc_msg_process in receive context c; msg_cb_ping
\* starts a hpsc_notif_send of the PONG reply in the same context
Dispatch(c, m) ==
    LET ping == ProcessCb(m) = "msg_cb_ping"
    IN  /\ rx' = [rx EXCEPT ![c] = [pc |-> IF ping THEN "send" ELSE "fin", msg |-> m,
                                    cb |-> ProcessCb(m),
                                    ret |-> hpsc_msg_process(m),
                                    sent |-> IF ping THEN 1 ELSE 0]]
        /\ snd' = [snd EXCEPT ![c] =
                     IF ping THEN [SndIdle EXCEPT !.pc = "loop", !.msg = PongOf(m)]
                     ELSE SndIdle]

\* the dispatcher has returned to the receive context c
Dispatched(c) ==
    \/ rx[c].pc = "fin"
    \/ rx[c].pc = "send" /\ snd[c].pc = "done"

\* hpsc_mbox_isr, event A, instance KI: mbox_chan_received_data ->
\* client_rx_callback of the in-kernel client, up to the dispatch
KernelRxUpcall ==
    /\ isr["KI"] = "idle"
    /\ HasBit(hw["KI"].cause, HPSC_MBOX_EVENT_A)
    /\ HasBit(hw["KI"].ie, HPSC_MBOX_INT_A(rcv_int_idx))
    /\ link["KI"].rx_callback
    /\ kdev["KI"].channel
    /\ rx["mboxrx"].pc = "idle"
    /\ isr' = [isr EXCEPT !["KI"] = "upcall"]
    /\ acks' = [acks EXCEPT !["KI"] = 0]
    /\ got' = [got EXCEPT !["KI"] = TRUE]
    /\ Dispatch("mboxrx", hw["KI"].data)
    /\ UNCHANGED << hw, link, rWait, kdev, handlers, shmIn, shmOut, shmTask, inflight >>
    /\ UNCHANGED userVars
    /\ UNCHANGED auxVars

\* client_rx_callback after hpsc_notif_recv: mbox_client_peek_data, unlock
KernelRxReturn ==
    /\ isr["KI"] = "upcall"
    /\ Dispatched("mboxrx")
    /\ hw' = [hw EXCEPT !["KI"] = mbox_client_peek_data(@)]
    /\ acks' = [acks EXCEPT !["KI"] = @ + PeekPulses]
    /\ isr' = [isr EXCEPT !["KI"] = "clear"]
    /\ rx' = [rx EXCEPT !["mboxrx"] = RxIdle]
    /\ snd' = [snd EXCEPT !["mboxrx"] = SndIdle]
    /\ UNCHANGED << got, link, rWait, kdev, handlers, shmIn, shmOut, shmTask, inflight >>
    /\ UNCHANGED userVars
    /\ UNCHANGED auxVars

\* hpsc_mbox_isr after the up-call: writel(event, REG_EVENT_CLEAR)
IsrClear(n) ==
    /\ isr[n] = "clear"
    /\ hw' = [hw EXCEPT ![n].cause = BitClear(@, HPSC_MBOX_EVENT_A)]
    /\ isr' = [isr EXCEPT ![n] = "idle"]
    /\ UNCHANGED << got, link, rWait, kdev, handlers, shmIn, shmOut, shmTask, snd, rx, acks,
                    inflight >>
    /\ UNCHANGED userVars
    /\ UNCHANGED auxVars

\* hpsc_mbox_isr, event B, on an instance of the in-kernel client:
\* mbox_chan_txdone -> client_tx_done, then the event is cleared
KernelAckIrq(n) ==
    /\ n \in KInst
    /\ HasBit(hw[n].cause, HPSC_MBOX_EVENT_B)
    /\ HasBit(hw[n].ie, HPSC_MBOX_INT_B(ack_int_idx))
    /\ link[n].tx_done
    /\ kdev' = [kdev EXCEPT ![n].send_ack = TRUE, ![n].send_rc = 0]
    /\ hw' = [hw EXCEPT ![n].cause = BitClear(@, HPSC_MBOX_EVENT_B)]
    /\ inflight' = [inflight EXCEPT ![n] = 0]
    /\ UNCHANGED << got, link, isr, rWait, handlers, shmIn, shmOut, shmTask, snd, rx, acks >>
    /\ UNCHANGED userVars
    /\ UNCHANGED auxVars

\* hpsc_msg_tp_shmem_recv: a wake-up of the poll task that finds NEW set
ShmemRecv ==
    /\ shmTask
    /\ rx["shmrx"].pc = "idle"
    /\ is_new(shmIn)
    /\ Dispatch("shmrx", shmIn.data)
    /\ UNCHANGED << got, hw, link, isr, rWait, kdev, handlers, shmIn, shmOut, shmTask, acks,
                    inflight >>
    /\ UNCHANGED userVars
    /\ UNCHANGED auxVars

\* hpsc_msg_tp_shmem_recv after hpsc_notif_recv: clear NEW, set ACK
ShmemRecvAck ==
    /\ Dispatched("shmrx")
    /\ shmIn' = [shmIn EXCEPT !.status =
                    BitOr(BitClear(@, HPSC_SHMEM_STATUS_BIT_NEW), HPSC_SHMEM_STATUS_BIT_ACK)]
    /\ rx' = [rx EXCEPT !["shmrx"] = RxIdle]
    /\ snd' = [snd EXCEPT !["shmrx"] = SndIdle]
    /\ UNCHANGED << got, hw, link, isr, rWait, kdev, handlers, shmOut, shmTask, acks, inflight >>
    /\ UNCHANGED userVars
    /\ UNCHANGED auxVars

\* ------------------------------------------------------------------------
\* Transport lifecycle
\* ------------------------------------------------------------------------
\* hpsc_msg_tp_shmem_probe: register on the bus, then start the poll task
ShmemProbe ==
    /\ ~ shmTask
    /\ "SHMEM" \notin handlers
    /\ handlers' = handlers \cup {"SHMEM"}
    /\ shmTask' = TRUE
    /\ UNCHANGED << got, hw, link, isr, rWait, kdev, shmIn, shmOut, snd, rx, acks, inflight >>
    /\ UNCHANGED userVars
    /\ UNCHANGED auxVars

\* hpsc_msg_tp_shmem_remove: kthread_stop returns once the task has left its
\* loop, then the transport is unregistered
ShmemRemove ==
    /\ shmTask
    /\ rx["shmrx"].pc = "idle"
    /\ shmTask' = FALSE
    /\ handlers' = handlers \ {"SHMEM"}
    /\ UNCHANGED << got, hw, link, isr, rWait, kdev, shmIn, shmOut, snd, rx, acks, inflight >>
    /\ UNCHANGED userVars
    /\ UNCHANGED auxVars

\* the callbacks hpsc_mbox_client_init gives both channels of the kernel client
KernelClient == [attached |-> TRUE, rx_callback |-> TRUE, tx_done |-> TRUE]

\* hpsc_mbox_client_kernel_probe: request both channels, register on the bus
KernelProbe ==
    /\ \A n \in KInst : ~ kdev[n].channel /\ ~ link[n].attached
    /\ link' = [n \in Inst |-> IF n \in KInst THEN KernelClient ELSE link[n]]
    /\ hw' = [n \in Inst |-> IF n \in KInst THEN hpsc_mbox_startup(hw[n], KernelClient)
                             ELSE hw[n]]
    /\ kdev' = [n \in KInst |-> [channel |-> TRUE, send_ack |-> TRUE, send_rc |-> 0]]
    /\ handlers' = handlers \cup {"MAILBOX"}
    /\ UNCHANGED << got, isr, rWait, shmIn, shmOut, shmTask, snd, rx, acks, inflight >>
    /\ UNCHANGED userVars
    /\ UNCHANGED auxVars

\* hpsc_mbox_client_kernel_remove: unregister, then free both channels
KernelRemove ==
    /\ \A n \in KInst : kdev[n].channel
    /\ isr["KI"] = "idle"
    /\ handlers' = handlers \ {"MAILBOX"}
    /\ link' = [n \in Inst |-> IF n \in KInst THEN NoClient ELSE link[n]]
    /\ hw' = [n \in Inst |-> IF n \in KInst THEN hpsc_mbox_shutdown(hw[n]) ELSE hw[n]]
    /\ kdev' = [n \in KInst |-> KdevClosed]
    /\ inflight' = [n \in Inst |-> IF n \in KInst THEN 0 ELSE inflight[n]]
    /\ UNCHANGED << got, isr, rWait, shmIn, shmOut, shmTask, snd, rx, acks >>
    /\ UNCHANGED userVars
    /\ UNCHANGED auxVars

\* ------------------------------------------------------------------------
\* hpsc_mbox_client_kernel_probe step by step (KernelProbe above is the same
\* function taken as one step, for runs in which nothing arrives meanwhile)
\* ------------------------------------------------------------------------
\* the cpu a receive interrupt is taken on: the one running the probe, or
\* another one
IrqCpus == {"probe", "other"}

ProbeAfterRequest(n) == IF n = "KO" THEN "request_KI" ELSE "register"
ProbeAfterUnlock(n) == IF n = "KO" THEN "unlock_KI" ELSE "done"

\* one pass of the loop of hpsc_mbox_client_kernel_probe: spin_lock of the
\* channel's lock, mbox_request_channel; a failure unlocks, frees the
\* channels opened before (fail_channel) and returns -EIO
ProbeRequest(n) ==
    /\ ~ probe.stuck
    /\ n \in KInst
    /\ probe.pc = (IF n = "KO" THEN "request_KO" ELSE "request_KI")
    /\ \E fail \in BOOLEAN :
        IF ~ fail
        THEN /\ link' = [link EXCEPT ![n] = KernelClient]
             /\ hw' = [hw EXCEPT ![n] = hpsc_mbox_startup(@, KernelClient)]
             /\ kdev' = [kdev EXCEPT ![n] = [channel |-> TRUE, send_ack |-> TRUE,
                                             send_rc |-> 0]]
             /\ probe' = [probe EXCEPT !.pc = ProbeAfterRequest(n),
                                       !.lock = @ \cup {n}]
        ELSE /\ link' = [m \in Inst |-> IF m \in KInst THEN NoClient ELSE link[m]]
             /\ hw' = [m \in Inst |-> IF m \in KInst /\ link[m].attached
                                      THEN hpsc_mbox_shutdown(hw[m]) ELSE hw[m]]
             /\ kdev' = [m \in KInst |-> [kdev[m] EXCEPT !.channel = FALSE]]
             /\ probe' = [probe EXCEPT !.pc = "failed", !.lock = {},
                                       !.ret = 0 - EIO]
    /\ UNCHANGED << got, isr, rWait, handlers, shmIn, shmOut, shmTask, snd, rx, acks,
                    inflight, enc, wdt, shm, bus, wq, mb, kt >>
    /\ UNCHANGED userVars

\* hpsc_notif_handler_register(notif_h), after both channels were requested
ProbeRegister ==
    /\ ~ probe.stuck
    /\ probe.pc = "register"
    /\ handlers' = handlers \cup {"MAILBOX"}
    /\ probe' = [probe EXCEPT !.pc = "unlock_KO"]
    /\ UNCHANGED << got, hw, link, isr, rWait, kdev, shmIn, shmOut, shmTask, snd, rx,
                    acks, inflight, enc, wdt, shm, bus, wq, mb, kt >>
    /\ UNCHANGED userVars

\* the loop of spin_unlock that ends the probe
ProbeUnlock(n) ==
    /\ ~ probe.stuck
    /\ n \in KInst
    /\ probe.pc = (IF n = "KO" THEN "unlock_KO" ELSE "unlock_KI")
    /\ probe' = [probe EXCEPT !.pc = ProbeAfterUnlock(n), !.lock = @ \ {n}]
    /\ UNCHANGED << got, hw, link, isr, rWait, kdev, handlers, shmIn, shmOut, shmTask,
                    snd, rx, acks, inflight, enc, wdt, shm, bus, wq, mb, kt >>
    /\ UNCHANGED userVars

\* hpsc_mbox_isr, event A, instance KI while the probe holds the channel's
\* lock: client_rx_callback spins in spin_lock.  The probe took the lock with
\* interrupts enabled, so on the probe's own cpu the lock is never released.
ProbeRxIrq(cpu) ==
    /\ isr["KI"] = "idle"
    /\ HasBit(hw["KI"].cause, HPSC_MBOX_EVENT_A)
    /\ HasBit(hw["KI"].ie, HPSC_MBOX_INT_A(rcv_int_idx))
    /\ link["KI"].rx_callback
    /\ "KI" \in probe.lock
    /\ isr' = [isr EXCEPT !["KI"] = "spin"]
    /\ probe' = [probe EXCEPT !.stuck = (cpu = "probe")]
    /\ UNCHANGED << got, hw, link, rWait, kdev, handlers, shmIn, shmOut, shmTask, snd,
                    rx, acks, inflight, enc, wdt, shm, bus, wq, mb, kt >>
    /\ UNCHANGED userVars

\* client_rx_callback gets the lock the probe released and dispatches
ProbeRxAcquire ==
    /\ isr["KI"] = "spin"
    /\ "KI" \notin probe.lock
    /\ kdev["KI"].channel
    /\ rx["mboxrx"].pc = "idle"
    /\ isr' = [isr EXCEPT !["KI"] = "upcall"]
    /\ acks' = [acks EXCEPT !["KI"] = 0]
    /\ got' = [got EXCEPT !["KI"] = TRUE]
    /\ Dispatch("mboxrx", hw["KI"].data)
    /\ UNCHANGED << hw, link, rWait, kdev, handlers, shmIn, shmOut, shmTask, inflight >>
    /\ UNCHANGED userVars
    /\ UNCHANGED auxVars

\* the receive up-call when the channel's lock is free
ProbeRxUpcall == "KI" \notin probe.lock /\ KernelRxUpcall

\* ------------------------------------------------------------------------
\* hpsc_mbox_client_kernel_send in two steps: spin_lock of the outbound
\* channel's lock, then the rest of the function.  The lock is taken with
\* interrupts enabled, and client_rx_callback sends the PONG from the
\* receive interrupt.
\* ------------------------------------------------------------------------
\* the next pass of hpsc_notif_send calls the mailbox transport first
MailboxFirst == ChainOrder(handlers) # << >> /\ Head(ChainOrder(handlers)) = "MAILBOX"

\* the in-kernel caller is inside hpsc_mbox_client_kernel_send, holding the lock
CallerLocked == snd["caller"].pc = "locked"

\* hpsc_mbox_client_kernel_send called for the in-kernel caller: spin_lock
CallerLock ==
    /\ snd["caller"].pc = "loop"
    /\ MailboxFirst
    /\ snd["mboxrx"].pc \notin {"spin_same", "spin_other"}
    /\ snd' = [snd EXCEPT !["caller"].pc = "locked"]
    /\ UNCHANGED << got, hw, link, isr, rWait, kdev, handlers, shmIn, shmOut, shmTask, rx,
                    acks, inflight >>
    /\ UNCHANGED userVars
    /\ UNCHANGED auxVars

\* the rest of hpsc_mbox_client_kernel_send for the in-kernel caller, its
\* spin_unlock, and the end of this pass of hpsc_notif_send; it cannot run
\* while an interrupt handler spins on the caller's cpu
CallerLockedSend ==
    /\ CallerLocked
    /\ snd["mboxrx"].pc # "spin_same"
    /\ \E fail \in BOOLEAN :
        LET walk == notifier_call_chain(<< "MAILBOX" >>, fail)
        IN  /\ snd' = [snd EXCEPT !["caller"] =
                         SendStep([snd["caller"] EXCEPT !.pc = "loop"], walk)]
            /\ IF Accepted(walk, "MAILBOX")
               THEN /\ hw' = [hw EXCEPT !["KO"] = SendPayload(@, snd["caller"].msg)]
                    /\ kdev' = [kdev EXCEPT !["KO"].send_ack = FALSE, !["KO"].send_rc = 0]
                    /\ inflight' = [inflight EXCEPT !["KO"] = @ + 1]
               ELSE UNCHANGED << hw, kdev, inflight >>
    /\ UNCHANGED << got, link, isr, rWait, handlers, shmIn, shmOut, shmTask, rx, acks >>
    /\ UNCHANGED userVars
    /\ UNCHANGED auxVars

\* the PONG send of client_rx_callback reaches spin_lock in
\* hpsc_mbox_client_kernel_send while the caller holds the lock: it spins,
\* on the caller's cpu (which the interrupt preempted) or on another one
RxSpin(cpu) ==
    /\ snd["mboxrx"].pc = "loop"
    /\ MailboxFirst
    /\ CallerLocked
    /\ snd' = [snd EXCEPT !["mboxrx"].pc =
                 IF cpu = "probe" THEN "spin_same" ELSE "spin_other"]
    /\ UNCHANGED << got, hw, link, isr, rWait, kdev, handlers, shmIn, shmOut, shmTask, rx,
                    acks, inflight >>
    /\ UNCHANGED userVars
    /\ UNCHANGED auxVars

\* the lock was released: the spinning PONG send goes on
RxUnspin ==
    /\ snd["mboxrx"].pc = "spin_other"
    /\ ~ CallerLocked
    /\ snd' = [snd EXCEPT !["mboxrx"].pc = "loop"]
    /\ UNCHANGED << got, hw, link, isr, rWait, kdev, handlers, shmIn, shmOut, shmTask, rx,
                    acks, inflight >>
    /\ UNCHANGED userVars
    /\ UNCHANGED auxVars

\* ------------------------------------------------------------------------
\* Registration on the bus, by notifier block
\* ------------------------------------------------------------------------
\* the blocks of a sequence with priority p
AtPriority(blocks, p) == { k \in 1..Len(blocks) : blocks[k].priority = p }

\* notifier_chain_register: insert in front of the first block of lower
\* priority, behind the blocks of the same priority; always returns 0
notifier_chain_register(chain, nb) ==
    LET k == Cardinality({ i \in 1..Len(chain) : chain[i].priority >= nb.priority })
    IN  SubSeq(chain, 1, k) \o << nb >> \o SubSeq(chain, k + 1, Len(chain))

\* notifier_chain_unregister: unlink the block if it is on the chain
notifier_chain_unregister(chain, nb) ==
    SelectSeq(chain, LAMBDA b : b # nb)

\* hpsc_notif_register of hpsc-notif.c: the chain afterwards and the return
\* value, which is atomic_notifier_chain_register's
hpsc_notif_register(chain, nb) ==
    [chain |-> notifier_chain_register(chain, nb), ret |-> 0]

\* hpsc_notif_unregister of hpsc-notif.c
hpsc_notif_unregister(chain, nb) == notifier_chain_unregister(chain, nb)

\* hpsc_notif_register of the table file: under notif_lock, -EBUSY if the
\* slot of the block's priority is taken, else the block goes in the slot
table_register(table, nb) ==
    IF table[nb.priority] # NoBlock
    THEN [table |-> table, ret |-> 0 - EBUSY]
    ELSE [table |-> [table EXCEPT ![nb.priority] = nb], ret |-> 0]

\* hpsc_notif_unregister of the table file: the slot is cleared only if it
\* holds this block
table_unregister(table, nb) ==
    IF table[nb.priority] = nb THEN [table EXCEPT ![nb.priority] = NoBlock]
    ELSE table

\* a device's probe registers its block; both files are shown the same call
BusRegister(nb) ==
    /\ nb \notin bus.live
    /\ LET c == hpsc_notif_register(bus.chain, nb)
           t == table_register(bus.table, nb)
       IN  bus' = [chain |-> c.chain, table |-> t.table, live |-> bus.live \cup {nb},
                   op |-> "register", nb |-> nb, ret |-> c.ret, tret |-> t.ret]
    /\ UNCHANGED << hw, link, isr, rWait, kdev, handlers, shmIn, shmOut, shmTask, snd,
                    rx, acks, udev, ufiles, got, oops, uInbound, ulast, rmsg,
                    inflight, enc, wdt, probe, shm, wq, mb, kt >>

\* a device's remove unregisters its block
BusUnregister(nb) ==
    /\ nb \in bus.live
    /\ bus' = [chain |-> hpsc_notif_unregister(bus.chain, nb),
               table |-> table_unregister(bus.table, nb),
               live |-> bus.live \ {nb},
               op |-> "unregister", nb |-> nb, ret |-> 0, tret |-> 0]
    /\ UNCHANGED << hw, link, isr, rWait, kdev, handlers, shmIn, shmOut, shmTask, snd,
                    rx, acks, udev, ufiles, got, oops, uInbound, ulast, rmsg,
                    inflight, enc, wdt, probe, shm, wq, mb, kt >>

\* ------------------------------------------------------------------------
\* The shared status words statement by statement.  The regions are plain
\* memory written by both sides without a common lock: each update of a
\* status word is a load and a store, and the other side can run in between.
\* ------------------------------------------------------------------------
\* the remote publishes in the in region: only when it sees NEW clear
ShmPublish ==
    /\ ~ is_new(shmIn)
    /\ shm.pub < MaxPub
    /\ shmIn' = [data |-> rmsg, status |-> BitOr(shmIn.status, HPSC_SHMEM_STATUS_BIT_NEW)]
    /\ shm' = [shm EXCEPT !.pub = @ + 1]
    /\ UNCHANGED << got, hw, link, isr, rWait, kdev, handlers, shmOut, shmTask, snd, rx,
                    acks, inflight, enc, wdt, probe, bus, wq, mb, kt >>
    /\ UNCHANGED userVars

\* hpsc_msg_tp_shmem_recv: is_new(tdev->in), hpsc_notif_recv
ShmPollDispatch ==
    /\ shmTask
    /\ rx["shmrx"].pc = "idle"
    /\ shm.lpc = "idle"
    /\ is_new(shmIn)
    /\ Dispatch("shmrx", shmIn.data)
    /\ shm' = [shm EXCEPT !.disp = @ + 1]
    /\ UNCHANGED << got, hw, link, isr, rWait, kdev, handlers, shmIn, shmOut, shmTask, acks,
                    inflight, enc, wdt, probe, bus, wq, mb, kt >>
    /\ UNCHANGED userVars

\* the PONG of the poll task goes through hpsc_notif_send to
\* hpsc_msg_tp_shmem_send
ShmPongSend ==
    /\ snd["shmrx"].pc = "loop"
    /\ LET walk == notifier_call_chain(ChainOrder(handlers), FALSE)
       IN  /\ snd' = [snd EXCEPT !["shmrx"] = SendStep(snd["shmrx"], walk)]
           /\ IF Accepted(walk, "SHMEM")
              THEN /\ shmOut' = [data |-> snd["shmrx"].msg,
                                 status |-> BitOr(shmOut.status, HPSC_SHMEM_STATUS_BIT_NEW)]
                   /\ shm' = [shm EXCEPT !.acc = @ + 1]
              ELSE UNCHANGED << shmOut, shm >>
    /\ UNCHANGED << got, hw, link, isr, rWait, kdev, handlers, shmIn, shmTask, rx, acks,
                    inflight, enc, wdt, probe, bus, wq, mb, kt >>
    /\ UNCHANGED userVars

\* hpsc_msg_tp_shmem_recv: tdev->in->status &= ~HPSC_SHMEM_STATUS_BIT_NEW
\* (the remote does not write while NEW is set, so load and store are one step)
ShmAckClear ==
    /\ shm.lpc = "idle"
    /\ Dispatched("shmrx")
    /\ shmIn' = [shmIn EXCEPT !.status = BitClear(@, HPSC_SHMEM_STATUS_BIT_NEW)]
    /\ shm' = [shm EXCEPT !.lpc = "cleared"]
    /\ UNCHANGED << got, hw, link, isr, rWait, kdev, handlers, shmOut, shmTask, snd, rx,
                    acks, inflight, enc, wdt, probe, bus, wq, mb, kt >>
    /\ UNCHANGED userVars

\* hpsc_msg_tp_shmem_recv: the load of tdev->in->status |= ..._BIT_ACK
ShmAckLoad ==
    /\ shm.lpc = "cleared"
    /\ shm' = [shm EXCEPT !.lpc = "loaded", !.ltmp = shmIn.status]
    /\ UNCHANGED << got, hw, link, isr, rWait, kdev, handlers, shmIn, shmOut, shmTask, snd,
                    rx, acks, inflight, enc, wdt, probe, bus, wq, mb, kt >>
    /\ UNCHANGED userVars

\* hpsc_msg_tp_shmem_recv: the store of tdev->in->status |= ..._BIT_ACK
ShmAckStore ==
    /\ shm.lpc = "loaded"
    /\ shmIn' = [shmIn EXCEPT !.status = BitOr(shm.ltmp, HPSC_SHMEM_STATUS_BIT_ACK)]
    /\ shm' = [shm EXCEPT !.lpc = "idle", !.ltmp = 0]
    /\ rx' = [rx EXCEPT !["shmrx"] = RxIdle]
    /\ snd' = [snd EXCEPT !["shmrx"] = SndIdle]
    /\ UNCHANGED << got, hw, link, isr, rWait, kdev, handlers, shmOut, shmTask, acks,
                    inflight, enc, wdt, probe, bus, wq, mb, kt >>
    /\ UNCHANGED userVars

\* the remote reads the out region and clears NEW
ShmRemoteClear ==
    /\ shm.rpc = "idle"
    /\ is_new(shmOut)
    /\ shmOut' = [shmOut EXCEPT !.status = BitClear(@, HPSC_SHMEM_STATUS_BIT_NEW)]
    /\ shm' = [shm EXCEPT !.rpc = "cleared", !.obs = @ + 1]
    /\ UNCHANGED << got, hw, link, isr, rWait, kdev, handlers, shmIn, shmTask, snd, rx,
                    acks, inflight, enc, wdt, probe, bus, wq, mb, kt >>
    /\ UNCHANGED userVars

\* the remote sets ACK in the out region: the load
ShmRemoteLoad ==
    /\ shm.rpc = "cleared"
    /\ shm' = [shm EXCEPT !.rpc = "loaded", !.rtmp = shmOut.status]
    /\ UNCHANGED << got, hw, link, isr, rWait, kdev, handlers, shmIn, shmOut, shmTask, snd,
                    rx, acks, inflight, enc, wdt, probe, bus, wq, mb, kt >>
    /\ UNCHANGED userVars

\* the remote sets ACK in the out region: the store
ShmRemoteStore ==
    /\ shm.rpc = "loaded"
    /\ shmOut' = [shmOut EXCEPT !.status = BitOr(shm.rtmp, HPSC_SHMEM_STATUS_BIT_ACK)]
    /\ shm' = [shm EXCEPT !.rpc = "idle", !.rtmp = 0]
    /\ UNCHANGED << got, hw, link, isr, rWait, kdev, handlers, shmIn, shmTask, snd, rx,
                    acks, inflight, enc, wdt, probe, bus, wq, mb, kt >>
    /\ UNCHANGED userVars

\* ------------------------------------------------------------------------
\* The remote side (the management cluster)
\* ------------------------------------------------------------------------
\* instances on which the remote is the sender / the receiver
RemoteTx == {"KI"} \cup (IF uInbound THEN {"U"} ELSE {})
RemoteRx == {"KO"} \cup (IF uInbound THEN {} ELSE {"U"})

\* the remote writes DATA and sets event A; it sends only when its previous
\* message has been acknowledged
RemoteSend(n) ==
    /\ n \in RemoteTx
    /\ ~ rWait[n]
    /\ hw' = [hw EXCEPT ![n] = SendPayload(@, rmsg)]
    /\ rWait' = [rWait EXCEPT ![n] = TRUE]
    /\ UNCHANGED << got, link, isr, kdev, handlers, shmIn, shmOut, shmTask, snd, rx, acks,
                    inflight >>
    /\ UNCHANGED userVars
    /\ UNCHANGED auxVars

\* the remote takes the acknowledgement (event B) of its message
RemoteSeeAck(n) ==
    /\ n \in RemoteTx
    /\ rWait[n]
    /\ HasBit(hw[n].cause, HPSC_MBOX_EVENT_B)
    /\ hw' = [hw EXCEPT ![n].cause = BitClear(@, HPSC_MBOX_EVENT_B)]
    /\ rWait' = [rWait EXCEPT ![n] = FALSE]
    /\ UNCHANGED << got, link, isr, kdev, handlers, shmIn, shmOut, shmTask, snd, rx, acks,
                    inflight >>
    /\ UNCHANGED userVars
    /\ UNCHANGED auxVars

\* the remote reads a message we sent: it clears event A and sets event B
RemoteConsume(n) ==
    /\ n \in RemoteRx
    /\ HasBit(hw[n].cause, HPSC_MBOX_EVENT_A)
    /\ hw' = [hw EXCEPT ![n].cause =
                 BitOr(BitClear(@, HPSC_MBOX_EVENT_A), HPSC_MBOX_EVENT_B)]
    /\ UNCHANGED << got, link, isr, rWait, kdev, handlers, shmIn, shmOut, shmTask, snd, rx,
                    acks, inflight >>
    /\ UNCHANGED userVars
    /\ UNCHANGED auxVars

\* the remote publishes a message in the in region: only when NEW is clear
RemoteShmemSend ==
    /\ ~ is_new(shmIn)
    /\ shmIn' = [data |-> rmsg, status |-> BitOr(shmIn.status, HPSC_SHMEM_STATUS_BIT_NEW)]
    /\ UNCHANGED << got, hw, link, isr, rWait, kdev, handlers, shmOut, shmTask, snd, rx, acks,
                    inflight >>
    /\ UNCHANGED userVars
    /\ UNCHANGED auxVars

\* the remote reads the out region: it clears NEW and sets ACK
RemoteShmemConsume ==
    /\ is_new(shmOut)
    /\ shmOut' = [shmOut EXCEPT !.status =
                    BitOr(BitClear(@, HPSC_SHMEM_STATUS_BIT_NEW), HPSC_SHMEM_STATUS_BIT_ACK)]
    /\ UNCHANGED << got, hw, link, isr, rWait, kdev, handlers, shmIn, shmTask, snd, rx, acks,
                    inflight >>
    /\ UNCHANGED userVars
    /\ UNCHANGED auxVars

\* ------------------------------------------------------------------------
\* User-facing mailbox device (hpsc-mbox-userspace.c)
\* ------------------------------------------------------------------------
EFAULT == 14
POLLIN == 1
POLLOUT == 4
POLLRDNORM == 64
POLLWRNORM == 256

\* open(2) access modes
OpenModes == {"r", "w", "rw"}
FMODE_READ(mode) == mode \in {"r", "rw"}
FMODE_WRITE(mode) == mode \in {"w", "rw"}

\* what user space passes to write(2)
UserBufs == { RemoteMsg(NOP, s) : s \in 1..MaxSeed }
UserCounts == {4, MBOX_MAX_MSG_LEN, MBOX_MAX_MSG_LEN + 1}

\* hpsc_mbox_rx_ack(chan, err) with err # 0 hands ERR_PTR(err) to
\* mbox_send_message; hpsc_mbox_send_data tests only for NULL and reads 16
\* words through it.  The read either faults or yields whatever is there.
ErrPtrOutcomes == {"fault", "read"}
ErrPtrWords == { ZeroMsg, RemoteMsg(255, MaxSeed) }

\* mbox_client_init: the callbacks the user device asks for
UserClient(incoming) ==
    [attached |-> TRUE, rx_callback |-> incoming, tx_done |-> ~ incoming]

\* mbox_open without the test of chan->channel
mbox_open_unguarded(d, mode, busy) ==
    LET d1 == [d EXCEPT !.incoming = FMODE_READ(mode) /\ ~ FMODE_WRITE(mode),
                        !.rx_msg_pending = FALSE,
                        !.send_rc = 0,
                        !.send_ack = FALSE]
    IN  IF busy THEN [dev |-> [d1 EXCEPT !.channel = FALSE], ret |-> 0 - EIO,
                      req |-> FALSE]
        ELSE [dev |-> [d1 EXCEPT !.channel = TRUE], ret |-> 0, req |-> TRUE]

\* mbox_open: the device after the call, the return value, and whether the
\* channel was requested successfully; busy is mbox_request_channel failing
mbox_open(d, mode, busy) ==
    IF d.channel THEN [dev |-> d, ret |-> 0 - EBUSY, req |-> FALSE]
    ELSE LET d1 == [d EXCEPT !.incoming = FMODE_READ(mode) /\ ~ FMODE_WRITE(mode),
                             !.rx_msg_pending = FALSE,
                             !.send_rc = 0,
                             !.send_ack = FALSE]
         IN  IF busy THEN [dev |-> [d1 EXCEPT !.channel = FALSE], ret |-> 0 - EIO,
                           req |-> FALSE]
             ELSE [dev |-> [d1 EXCEPT !.channel = TRUE], ret |-> 0, req |-> TRUE]

\* mbox_request_channel fails when the instance already has a client
RequestBusy == link["U"].attached

UserOpen(mode) ==
    /\ ~ oops
    /\ Len(ufiles) < MaxOpens
    /\ LET r == mbox_open(udev, mode, RequestBusy)
       IN  /\ udev' = r.dev
           /\ ulast' = [op |-> "open", ret |-> r.ret, data |-> << >>]
           /\ IF r.req
              THEN /\ link' = [link EXCEPT !["U"] = UserClient(r.dev.incoming)]
                   /\ hw' = [hw EXCEPT !["U"] =
                                hpsc_mbox_startup(@, UserClient(r.dev.incoming))]
                   /\ got' = [got EXCEPT !["U"] = FALSE]
                   /\ acks' = [acks EXCEPT !["U"] = 0]
                   /\ inflight' = [inflight EXCEPT !["U"] = 0]
              ELSE UNCHANGED << link, hw, got, acks, inflight >>
           /\ ufiles' = IF r.ret = 0 THEN Append(ufiles, [mode |-> mode, pos |-> 0])
                        ELSE ufiles
    /\ UNCHANGED << isr, rWait, kdev, handlers, shmIn, shmOut, shmTask, snd, rx,
                    oops, uInbound, rmsg >>
    /\ UNCHANGED auxVars

\* the sequence without its k-th element
RemoveAt(q, k) == SubSeq(q, 1, k - 1) \o SubSeq(q, k + 1, Len(q))

\* mbox_release of the k-th open file
UserRelease(k) ==
    /\ ~ oops
    /\ k \in 1..Len(ufiles)
    /\ ulast' = [op |-> "release", ret |-> 0, data |-> << >>]
    /\ IF ~ udev.channel
       THEN /\ ufiles' = RemoveAt(ufiles, k)
            /\ UNCHANGED << udev, hw, link, acks, oops >>
       ELSE IF ~ udev.rx_msg_pending
       THEN /\ ufiles' = RemoveAt(ufiles, k)
            /\ hw' = [hw EXCEPT !["U"] = hpsc_mbox_shutdown(@)]
            /\ link' = [link EXCEPT !["U"] = NoClient]
            /\ udev' = [udev EXCEPT !.channel = FALSE]
            /\ UNCHANGED << acks, oops >>
       ELSE \E out \in ErrPtrOutcomes :
            IF out = "fault"
            THEN /\ oops' = TRUE
                 /\ UNCHANGED << udev, hw, link, acks, ufiles >>
            ELSE \E w \in ErrPtrWords :
                 /\ ufiles' = RemoveAt(ufiles, k)
                 /\ hw' = [hw EXCEPT !["U"] = hpsc_mbox_shutdown(SendPayload(@, w))]
                 /\ link' = [link EXCEPT !["U"] = NoClient]
                 /\ udev' = [udev EXCEPT !.channel = FALSE]
                 /\ UNCHANGED << acks, oops >>
    /\ UNCHANGED << isr, rWait, kdev, handlers, shmIn, shmOut, shmTask, snd, rx, got,
                    uInbound, inflight, rmsg >>
    /\ UNCHANGED auxVars

\* copy_from_user(dst, buf, count): on a fault the bytes not copied are zeroed
copy_from_user(dst, buf, count, fault) ==
    [k \in 1..Len(dst) |-> IF k > count THEN dst[k] ELSE IF fault THEN 0 ELSE buf[k]]

\* mbox_write with the length checked only after the flags are reset
mbox_write_latecheck(d, buf, count, fault, fail) ==
    IF ~ d.channel THEN [dev |-> d, ret |-> 0 - ENODEV, send |-> FALSE]
    ELSE LET d0 == [d EXCEPT !.send_ack = FALSE, !.send_rc = 0]
             d1 == [d0 EXCEPT !.message = copy_from_user(@, buf, count, fault)]
         IN  IF count > MBOX_MAX_MSG_LEN
             THEN [dev |-> d0, ret |-> 0 - EINVAL, send |-> FALSE]
             ELSE IF fault THEN [dev |-> d1, ret |-> 0 - EFAULT, send |-> FALSE]
             ELSE IF fail THEN [dev |-> d1, ret |-> 0 - EIO, send |-> FALSE]
             ELSE [dev |-> d1, ret |-> count, send |-> TRUE]

\* mbox_write: the device after the call, the return value, and whether the
\* message buffer went to mbox_send_message; fail is mbox_send_message failing
mbox_write(d, buf, count, fault, fail) ==
    IF ~ d.channel THEN [dev |-> d, ret |-> 0 - ENODEV, send |-> FALSE]
    ELSE IF count > MBOX_MAX_MSG_LEN THEN [dev |-> d, ret |-> 0 - EINVAL, send |-> FALSE]
    ELSE LET d1 == [d EXCEPT !.message = copy_from_user(@, buf, count, fault)]
             d2 == [d1 EXCEPT !.send_ack = FALSE, !.send_rc = 0]
         IN  IF fault THEN [dev |-> d1, ret |-> 0 - EFAULT, send |-> FALSE]
             ELSE IF fail THEN [dev |-> d2, ret |-> 0 - EIO, send |-> FALSE]
             ELSE [dev |-> d2, ret |-> count, send |-> TRUE]

\* write(2) on the k-th open file
UserWrite(k) ==
    /\ ~ oops
    /\ k \in 1..Len(ufiles)
    /\ FMODE_WRITE(ufiles[k].mode)
    /\ inflight["U"] < MaxInflight
    /\ \E buf \in UserBufs, count \in UserCounts, fault \in BOOLEAN, fail \in BOOLEAN :
        LET r == mbox_write(udev, buf, count, fault, fail)
        IN  /\ udev' = r.dev
            /\ ulast' = [op |-> "write", ret |-> r.ret, data |-> << >>]
            /\ IF r.send
               THEN /\ hw' = [hw EXCEPT !["U"] = SendPayload(@, r.dev.message)]
                    /\ inflight' = [inflight EXCEPT !["U"] = @ + 1]
               ELSE UNCHANGED << hw, inflight >>
    /\ UNCHANGED << link, isr, rWait, kdev, handlers, shmIn, shmOut, shmTask, snd, rx,
                    acks, ufiles, got, oops, uInbound, rmsg >>
    /\ UNCHANGED auxVars

\* simple_read_from_buffer(to, count, ppos, from, available): bytes copied
simple_read_from_buffer(count, pos, available) ==
    IF pos >= available \/ count = 0 THEN 0
    ELSE IF count > available - pos THEN available - pos ELSE count

\* mbox_read without the test of chan->channel
mbox_read_nocheck(d, pos) ==
    IF d.incoming
    THEN IF ~ d.rx_msg_pending
         THEN [dev |-> d, ret |-> 0 - EAGAIN, data |-> << >>, ack |-> FALSE]
         ELSE LET n == simple_read_from_buffer(MBOX_MAX_MSG_LEN, pos, MBOX_MAX_MSG_LEN)
              IN  [dev |-> [d EXCEPT !.rx_msg_pending = FALSE], ret |-> n,
                   data |-> SubSeq(d.message, pos + 1, pos + n), ack |-> TRUE]
    ELSE IF ~ d.send_ack
         THEN [dev |-> d, ret |-> 0 - EAGAIN, data |-> << >>, ack |-> FALSE]
         ELSE LET n == simple_read_from_buffer(MBOX_MAX_MSG_LEN, pos, 4)
              IN  [dev |-> [d EXCEPT !.send_ack = FALSE, !.send_rc = 0], ret |-> n,
                   data |-> SubSeq(U32LE(d.send_rc), pos + 1, pos + n), ack |-> FALSE]

\* mbox_read: the device after the call, the return value, the bytes handed
\* to user space, and whether the rx-ack was issued
mbox_read(d, pos) ==
    IF ~ d.channel
    THEN [dev |-> d, ret |-> 0 - ENODEV, data |-> << >>, ack |-> FALSE]
    ELSE IF d.incoming
    THEN IF ~ d.rx_msg_pending
         THEN [dev |-> d, ret |-> 0 - EAGAIN, data |-> << >>, ack |-> FALSE]
         ELSE LET n == simple_read_from_buffer(MBOX_MAX_MSG_LEN, pos, MBOX_MAX_MSG_LEN)
              IN  [dev |-> [d EXCEPT !.rx_msg_pending = FALSE], ret |-> n,
                   data |-> SubSeq(d.message, pos + 1, pos + n), ack |-> TRUE]
    ELSE IF ~ d.send_ack
         THEN [dev |-> d, ret |-> 0 - EAGAIN, data |-> << >>, ack |-> FALSE]
         ELSE LET n == simple_read_from_buffer(MBOX_MAX_MSG_LEN, pos, 4)
              IN  [dev |-> [d EXCEPT !.send_ack = FALSE, !.send_rc = 0], ret |-> n,
                   data |-> SubSeq(U32LE(d.send_rc), pos + 1, pos + n), ack |-> FALSE]

\* read(2) on the k-th open file; the file position moves by the bytes read
UserRead(k) ==
    /\ ~ oops
    /\ k \in 1..Len(ufiles)
    /\ FMODE_READ(ufiles[k].mode)
    /\ LET r == mbox_read(udev, ufiles[k].pos)
       IN  /\ udev' = r.dev
           /\ ulast' = [op |-> "read", ret |-> r.ret, data |-> r.data]
           /\ ufiles' = IF r.ret > 0 THEN [ufiles EXCEPT ![k].pos = @ + r.ret] ELSE ufiles
           /\ IF r.ack
              THEN /\ hw' = [hw EXCEPT !["U"] = SendNull(@)]
                   /\ acks' = [acks EXCEPT !["U"] = @ + 1]
              ELSE UNCHANGED << hw, acks >>
    /\ UNCHANGED << link, isr, rWait, kdev, handlers, shmIn, shmOut, shmTask, snd, rx,
                    got, oops, uInbound, inflight, rmsg >>
    /\ UNCHANGED auxVars

\* mbox_poll reporting writable whatever send_ack is
mbox_poll_writable(d) ==
    IF ~ d.channel THEN 0
    ELSE (IF d.rx_msg_pending \/ d.send_ack THEN POLLIN + POLLRDNORM ELSE 0)
         + POLLOUT + POLLWRNORM

\* mbox_poll: the event mask
mbox_poll(d) ==
    IF ~ d.channel THEN 0
    ELSE (IF d.rx_msg_pending \/ d.send_ack THEN POLLIN + POLLRDNORM ELSE 0)
         + (IF ~ d.send_ack THEN POLLOUT + POLLWRNORM ELSE 0)

\* poll(2) on the k-th open file
UserPoll(k) ==
    /\ ~ oops
    /\ k \in 1..Len(ufiles)
    /\ ulast' = [op |-> "poll", ret |-> mbox_poll(udev), data |-> << >>]
    /\ ulast' # ulast
    /\ UNCHANGED << hw, link, isr, rWait, kdev, handlers, shmIn, shmOut, shmTask, snd,
                    rx, acks, udev, ufiles, got, oops, uInbound, inflight, rmsg >>
    /\ UNCHANGED auxVars

\* wake_up_interruptible(&chan->wq): every thread asleep in poll(2) is made
\* runnable
wake_up_interruptible(w) ==
    [t \in PollThreads |-> IF w[t].st = "sleep" THEN [w[t] EXCEPT !.st = "woken"]
                           ELSE w[t]]

\* mbox_received without the memcpy of the message
mbox_received_nocopy ==
    /\ IF ~ udev.channel
       THEN /\ isr' = [isr EXCEPT !["U"] = "clear"]
            /\ UNCHANGED << udev, hw, acks, got, oops, wq >>
       ELSE IF ~ udev.rx_msg_pending
       THEN /\ udev' = [udev EXCEPT !.rx_msg_pending = TRUE]
            /\ wq' = wake_up_interruptible(wq)
            /\ acks' = [acks EXCEPT !["U"] = 0]
            /\ got' = [got EXCEPT !["U"] = TRUE]
            /\ isr' = [isr EXCEPT !["U"] = "clear"]
            /\ UNCHANGED << hw, oops >>
       ELSE \E out \in ErrPtrOutcomes :
            IF out = "fault"
            THEN /\ oops' = TRUE
                 /\ UNCHANGED << udev, hw, acks, got, isr, wq >>
            ELSE \E w \in ErrPtrWords :
                 /\ hw' = [hw EXCEPT !["U"] = SendPayload(@, w)]
                 /\ isr' = [isr EXCEPT !["U"] = "clear"]
                 /\ UNCHANGED << udev, acks, got, oops, wq >>
    /\ UNCHANGED << link, rWait, kdev, handlers, shmIn, shmOut, shmTask, snd, rx,
                    ufiles, uInbound, inflight, ulast, rmsg >>
    /\ UNCHANGED << enc, wdt, probe, shm, bus, mb, kt >>

\* mbox_received, under chan->lock: a closed device drops the message, a
\* free slot takes it and wakes the pollers, a full slot sends the nack
mbox_received ==
    /\ IF ~ udev.channel
       THEN /\ isr' = [isr EXCEPT !["U"] = "clear"]
            /\ UNCHANGED << udev, hw, acks, got, oops, wq >>
       ELSE IF ~ udev.rx_msg_pending
       THEN /\ udev' = [udev EXCEPT !.message = hw["U"].data, !.rx_msg_pending = TRUE]
            /\ wq' = wake_up_interruptible(wq)
            /\ acks' = [acks EXCEPT !["U"] = 0]
            /\ got' = [got EXCEPT !["U"] = TRUE]
            /\ isr' = [isr EXCEPT !["U"] = "clear"]
            /\ UNCHANGED << hw, oops >>
       ELSE \E out \in ErrPtrOutcomes :
            IF out = "fault"
            THEN /\ oops' = TRUE
                 /\ UNCHANGED << udev, hw, acks, got, isr, wq >>
            ELSE \E w \in ErrPtrWords :
                 /\ hw' = [hw EXCEPT !["U"] = SendPayload(@, w)]
                 /\ isr' = [isr EXCEPT !["U"] = "clear"]
                 /\ UNCHANGED << udev, acks, got, oops, wq >>
    /\ UNCHANGED << link, rWait, kdev, handlers, shmIn, shmOut, shmTask, snd, rx,
                    ufiles, uInbound, inflight, ulast, rmsg >>
    /\ UNCHANGED << enc, wdt, probe, shm, bus, mb, kt >>

\* hpsc_mbox_isr, event A, user instance: mbox_chan_received_data ->
\* mbox_received.  Without a client the framework drops the up-call.
UserRxUpcall ==
    /\ ~ oops
    /\ isr["U"] = "idle"
    /\ HasBit(hw["U"].cause, HPSC_MBOX_EVENT_A)
    /\ HasBit(hw["U"].ie, HPSC_MBOX_INT_A(rcv_int_idx))
    /\ link["U"].rx_callback
    /\ mbox_received

\* mbox_sent(client, message, r), under chan->lock: a closed device drops
\* the [N]ACK, an open one records it and wakes the pollers
mbox_sent(d, r) ==
    IF ~ d.channel THEN [dev |-> d, wake |-> FALSE]
    ELSE [dev |-> [d EXCEPT !.send_rc = r, !.send_ack = TRUE], wake |-> TRUE]

\* hpsc_mbox_isr, event B, user instance: mbox_chan_txdone -> mbox_sent, then
\* the event is cleared
UserAckIrq ==
    /\ ~ oops
    /\ HasBit(hw["U"].cause, HPSC_MBOX_EVENT_B)
    /\ HasBit(hw["U"].ie, HPSC_MBOX_INT_B(ack_int_idx))
    /\ link["U"].tx_done
    /\ udev' = mbox_sent(udev, 0).dev
    /\ wq' = IF mbox_sent(udev, 0).wake THEN wake_up_interruptible(wq) ELSE wq
    /\ hw' = [hw EXCEPT !["U"].cause = BitClear(@, HPSC_MBOX_EVENT_B)]
    /\ inflight' = [inflight EXCEPT !["U"] = 0]
    /\ UNCHANGED << link, isr, rWait, kdev, handlers, shmIn, shmOut, shmTask, snd, rx,
                    acks, ufiles, got, oops, uInbound, ulast, rmsg >>
    /\ UNCHANGED << enc, wdt, probe, shm, bus, mb, kt >>

\* ------------------------------------------------------------------------
\* File operations and up-calls that overlap a close.  The driver's locking
\* comment names two races: interrupts against user operations, and threads
\* that share a file descriptor; each operation is split where it takes
\* chan->lock, and mbox_release can run in between.
\* ------------------------------------------------------------------------
\* the events a thread asks poll(2) for
PollEvents == {POLLIN, POLLOUT}

\* poll(2): mbox_poll has put the thread on chan->wq, and no bit it asked for
\* is in the mask, so the thread sleeps
UserPollSleep(t, ev) ==
    /\ ~ oops
    /\ wq[t].st = "out"
    /\ Len(ufiles) >= 1
    /\ ~ HasBit(mbox_poll(udev), ev)
    /\ wq' = [wq EXCEPT ![t] = [st |-> "sleep", events |-> ev]]
    /\ UNCHANGED << hw, link, isr, rWait, kdev, handlers, shmIn, shmOut, shmTask, snd,
                    rx, acks, udev, ufiles, got, oops, uInbound, ulast, rmsg,
                    inflight, enc, wdt, probe, shm, bus, mb, kt >>

\* poll(2) after a wake-up: mbox_poll is called again; the call returns the
\* mask if it has a bit the thread asked for, else the thread sleeps again
UserPollWake(t) ==
    /\ ~ oops
    /\ wq[t].st = "woken"
    /\ IF HasBit(mbox_poll(udev), wq[t].events)
       THEN /\ wq' = [wq EXCEPT ![t] = [st |-> "out", events |-> 0]]
            /\ ulast' = [op |-> "poll", ret |-> mbox_poll(udev), data |-> << >>]
       ELSE /\ wq' = [wq EXCEPT ![t].st = "sleep"]
            /\ ulast' = ulast
    /\ UNCHANGED << hw, link, isr, rWait, kdev, handlers, shmIn, shmOut, shmTask, snd,
                    rx, acks, udev, ufiles, got, oops, uInbound, rmsg,
                    inflight, enc, wdt, probe, shm, bus, mb, kt >>

\* read(2) or write(2) entered on the open file, up to spin_lock_irqsave
UserFopEnter(t, op) ==
    /\ ~ oops
    /\ wq[t].st = "out"
    /\ Len(ufiles) >= 1
    /\ IF op = "read" THEN FMODE_READ(ufiles[1].mode) ELSE FMODE_WRITE(ufiles[1].mode)
    /\ wq' = [wq EXCEPT ![t] = [st |-> op, events |-> 0]]
    /\ UNCHANGED << hw, link, isr, rWait, kdev, handlers, shmIn, shmOut, shmTask, snd,
                    rx, acks, udev, ufiles, got, oops, uInbound, ulast, rmsg,
                    inflight, enc, wdt, probe, shm, bus, mb, kt >>

\* mbox_read from the lock on, in the thread that entered it
UserFopRead(t) ==
    /\ ~ oops
    /\ wq[t].st = "read"
    /\ LET pos == IF ufiles = << >> THEN 0 ELSE ufiles[1].pos
           r == mbox_read(udev, pos)
       IN  /\ udev' = r.dev
           /\ ulast' = [op |-> "read", ret |-> r.ret, data |-> r.data]
           /\ ufiles' = IF r.ret > 0 /\ ufiles # << >>
                        THEN [ufiles EXCEPT ![1].pos = @ + r.ret] ELSE ufiles
           /\ IF r.ack
              THEN /\ hw' = [hw EXCEPT !["U"] = SendNull(@)]
                   /\ acks' = [acks EXCEPT !["U"] = @ + 1]
              ELSE UNCHANGED << hw, acks >>
    /\ wq' = [wq EXCEPT ![t].st = "out"]
    /\ UNCHANGED << link, isr, rWait, kdev, handlers, shmIn, shmOut, shmTask, snd, rx,
                    got, oops, uInbound, inflight, rmsg, enc, wdt, probe, shm, bus, mb, kt >>

\* mbox_write from the lock on, in the thread that entered it; the thread
\* writes a whole message from readable memory
UserFopWrite(t) ==
    /\ ~ oops
    /\ wq[t].st = "write"
    /\ inflight["U"] < MaxInflight
    /\ \E buf \in UserBufs, count \in {MBOX_MAX_MSG_LEN}, fault \in {FALSE}, fail \in BOOLEAN :
        LET r == mbox_write(udev, buf, count, fault, fail)
        IN  /\ udev' = r.dev
            /\ ulast' = [op |-> "write", ret |-> r.ret, data |-> << >>]
            /\ IF r.send
               THEN /\ hw' = [hw EXCEPT !["U"] = SendPayload(@, r.dev.message)]
                    /\ inflight' = [inflight EXCEPT !["U"] = @ + 1]
               ELSE UNCHANGED << hw, inflight >>
    /\ wq' = [wq EXCEPT ![t].st = "out"]
    /\ UNCHANGED << link, isr, rWait, kdev, handlers, shmIn, shmOut, shmTask, snd, rx,
                    acks, ufiles, got, oops, uInbound, rmsg, enc, wdt, probe, shm, bus, mb, kt >>

\* hpsc_mbox_isr on another cpu has read the cause and called through the
\* client's callback: ev = A is mbox_received, ev = B is mbox_sent, each
\* about to take chan->lock
UserIsrEnter(ev) ==
    /\ ~ oops
    /\ isr["U"] = "idle"
    /\ HasBit(hw["U"].cause, ev)
    /\ IF ev = HPSC_MBOX_EVENT_A
       THEN /\ HasBit(hw["U"].ie, HPSC_MBOX_INT_A(rcv_int_idx))
            /\ link["U"].rx_callback
            /\ isr' = [isr EXCEPT !["U"] = "rx_lock"]
       ELSE /\ HasBit(hw["U"].ie, HPSC_MBOX_INT_B(ack_int_idx))
            /\ link["U"].tx_done
            /\ isr' = [isr EXCEPT !["U"] = "tx_lock"]
    /\ UNCHANGED << hw, link, rWait, kdev, handlers, shmIn, shmOut, shmTask, snd,
                    rx, acks, udev, ufiles, got, oops, uInbound, ulast, rmsg,
                    inflight, enc, wdt, probe, shm, bus, wq, mb, kt >>

\* mbox_received once it has chan->lock
UserRxLocked ==
    /\ ~ oops
    /\ isr["U"] = "rx_lock"
    /\ mbox_received

\* mbox_sent once it has chan->lock, then the handler clears event B
UserAckLocked ==
    /\ ~ oops
    /\ isr["U"] = "tx_lock"
    /\ udev' = mbox_sent(udev, 0).dev
    /\ wq' = IF mbox_sent(udev, 0).wake THEN wake_up_interruptible(wq) ELSE wq
    /\ hw' = [hw EXCEPT !["U"].cause = BitClear(@, HPSC_MBOX_EVENT_B)]
    /\ inflight' = [inflight EXCEPT !["U"] = 0]
    /\ isr' = [isr EXCEPT !["U"] = "idle"]
    /\ UNCHANGED << link, rWait, kdev, handlers, shmIn, shmOut, shmTask, snd, rx,
                    acks, ufiles, got, oops, uInbound, ulast, rmsg >>
    /\ UNCHANGED << enc, wdt, probe, shm, bus, mb, kt >>

\* ------------------------------------------------------------------------
\* Encoders (hpsc-msg.c) and the monitor (hpsc-monitor.c)
\* ------------------------------------------------------------------------
\* the formatted text of the info argument: n characters, none of them nul
InfoChars == {65, 255}
InfoStrings == { [k \in 1..n |-> ch] : n \in 0..MaxInfo, ch \in InfoChars }
LifecycleStatus == {LIFECYCLE_UP, LIFECYCLE_DOWN}

\* hpsc_msg_lifecycle(status, fmt, ...) up to its call of msg_send: the
\* envelope handed to hpsc_notif_send
LifecycleCall(status, info) ==
    /\ enc.pc = "idle"
    /\ enc' = [pc |-> "built", status |-> status, info |-> info,
               msg |-> LifecycleMsg(status, info)]
    /\ UNCHANGED << hw, link, isr, rWait, kdev, handlers, shmIn, shmOut, shmTask, snd,
                    rx, acks, got, inflight, wdt, probe, shm, bus, wq, mb, kt >>
    /\ UNCHANGED userVars

\* hpsc_msg_lifecycle returns
LifecycleReturn ==
    /\ enc.pc = "built"
    /\ enc' = EncIdle
    /\ UNCHANGED << hw, link, isr, rWait, kdev, handlers, shmIn, shmOut, shmTask, snd,
                    rx, acks, got, inflight, wdt, probe, shm, bus, wq, mb, kt >>
    /\ UNCHANGED userVars

\* hpsc_monitor_wdt with atomic_read in place of atomic_cmpxchg
wdt_cmpxchg_read(v) == [v |-> v, old |-> v]

\* atomic_cmpxchg(&is_in_poweroff, 0, 1): the new value and the value returned
wdt_cmpxchg(v) == [v |-> IF v = 0 THEN 1 ELSE v, old |-> v]

\* hpsc_monitor_wdt on watchdog c: hpsc_msg_wdt_timeout(action) hands the
\* WATCHDOG_TIMEOUT envelope to hpsc_notif_send
WdtNotify(c) ==
    /\ wdt.pc[c] = "idle"
    /\ wdt.n[c] < MaxWdt
    /\ wdt' = [wdt EXCEPT !.pc[c] = "cmpxchg", !.n[c] = @ + 1, !.sent[c] = @ + 1,
                          !.last[c] = WdtMsg(c)]
    /\ UNCHANGED << hw, link, isr, rWait, kdev, handlers, shmIn, shmOut, shmTask, snd,
                    rx, acks, got, inflight, enc, probe, shm, bus, wq, mb, kt >>
    /\ UNCHANGED userVars

\* hpsc_monitor_wdt: the atomic_cmpxchg; a non-zero result returns NOTIFY_OK
WdtCmpxchg(c) ==
    /\ wdt.pc[c] = "cmpxchg"
    /\ LET r == wdt_cmpxchg(wdt.is_in_poweroff)
       IN  wdt' = [wdt EXCEPT !.is_in_poweroff = r.v,
                              !.pc[c] = IF r.old # 0 THEN "idle" ELSE "poweroff"]
    /\ UNCHANGED << hw, link, isr, rWait, kdev, handlers, shmIn, shmOut, shmTask, snd,
                    rx, acks, got, inflight, enc, probe, shm, bus, wq, mb, kt >>
    /\ UNCHANGED userVars

\* hpsc_monitor_wdt: orderly_poweroff(true), atomic_set(&is_in_poweroff, 1),
\* return NOTIFY_BAD
WdtPoweroff(c) ==
    /\ wdt.pc[c] = "poweroff"
    /\ wdt' = [wdt EXCEPT !.poweroffs = @ + 1, !.is_in_poweroff = 1, !.pc[c] = "idle"]
    /\ UNCHANGED << hw, link, isr, rWait, kdev, handlers, shmIn, shmOut, shmTask, snd,
                    rx, acks, got, inflight, enc, probe, shm, bus, wq, mb, kt >>
    /\ UNCHANGED userVars

\* ------------------------------------------------------------------------
\* Specifications
\* ------------------------------------------------------------------------
\* transports coming and going, and what the remote does with our messages
Lifecycle ==
    \/ ShmemProbe
    \/ ShmemRemove
    \/ KernelProbe
    \/ KernelRemove
    \/ \E n \in KInst : KernelAckIrq(n)
    \/ RemoteConsume("KO")
    \/ RemoteShmemConsume

\* the sending path: in-kernel callers, the bus and both transports
Next ==
    \/ \E m \in CallerMsgs : CallerSend(m)
    \/ SendAttempt("caller")
    \/ CallerReturn
    \/ Lifecycle

Spec == Init /\ [][Next]_vars

\* the receiving path: both transports' receive sides, the dispatcher and the
\* replies it sends through the bus
NextRecv ==
    \/ RemoteSend("KI")
    \/ KernelRxUpcall
    \/ KernelRxReturn
    \/ IsrClear("KI")
    \/ RemoteShmemSend
    \/ ShmemRecv
    \/ ShmemRecvAck
    \/ \E c \in RxCtx : SendAttempt(c)
    \/ Lifecycle

SpecRecv == InitRecv /\ [][NextRecv]_vars

\* the initialisation of the in-kernel client while the remote may send
InitProbe == \E m \in RemoteMsgs : Boot(m, TRUE)

NextProbe ==
    \/ \E n \in KInst : ProbeRequest(n)
    \/ ProbeRegister
    \/ \E n \in KInst : ProbeUnlock(n)
    \/ \E cpu \in IrqCpus : ProbeRxIrq(cpu)
    \/ ProbeRxAcquire
    \/ ProbeRxUpcall
    \/ KernelRxReturn
    \/ IsrClear("KI")
    \/ SendAttempt("mboxrx")
    \/ RemoteSend("KI")
    \/ RemoteConsume("KO")
    \/ \E n \in KInst : KernelAckIrq(n)
    \/ ShmemProbe
    \/ RemoteShmemConsume

SpecProbe == InitProbe /\ [][NextProbe]_vars

\* sends from process context and from the receive paths, with the lock of
\* the outbound channel
InitLock == Boot(RemoteMsg(PING, MaxSeed), TRUE)

NextLock ==
    \/ CallerSend(WdtMsg(3))
    \/ CallerLock
    \/ CallerLockedSend
    \/ ~ MailboxFirst /\ SendAttempt("caller")
    \/ CallerReturn
    \/ \E cpu \in IrqCpus : RxSpin(cpu)
    \/ RxUnspin
    \/ \E c \in RxCtx : ~ (MailboxFirst /\ CallerLocked) /\ SendAttempt(c)
    \/ RemoteSend("KI")
    \/ KernelRxUpcall
    \/ KernelRxReturn
    \/ IsrClear("KI")
    \/ RemoteShmemSend
    \/ ShmemRecv
    \/ ShmemRecvAck
    \/ ~ CallerLocked /\ snd["mboxrx"].pc \notin {"spin_same", "spin_other"} /\ Lifecycle

SpecLock == InitLock /\ [][NextLock]_vars

\* the shared-memory transport with the remote, status words updated by
\* loads and stores
InitShm == \E m \in {RemoteMsg(t, MaxSeed) : t \in {NOP, PING, PONG}} : Boot(m, TRUE)

NextShm ==
    \/ ShmemProbe
    \/ ShmPublish
    \/ ShmPollDispatch
    \/ ShmPongSend
    \/ ShmAckClear
    \/ ShmAckLoad
    \/ ShmAckStore
    \/ ShmRemoteClear
    \/ ShmRemoteLoad
    \/ ShmRemoteStore

SpecShm == InitShm /\ [][NextShm]_vars

\* the user-facing device: file operations from user space, the instance's
\* interrupts, and the remote at the other end
NextUser ==
    \/ \E mode \in OpenModes : UserOpen(mode)
    \/ \E k \in 1..MaxOpens : UserRelease(k)
    \/ \E k \in 1..MaxOpens : UserWrite(k)
    \/ \E k \in 1..MaxOpens : UserRead(k)
    \/ \E k \in 1..MaxOpens : UserPoll(k)
    \/ UserRxUpcall
    \/ IsrClear("U")
    \/ UserAckIrq
    \/ RemoteSend("U")
    \/ RemoteSeeAck("U")
    \/ RemoteConsume("U")

SpecUser == InitUser /\ [][NextUser]_vars

\* calls of the lifecycle encoder
NextLife ==
    \/ \E status \in LifecycleStatus, info \in InfoStrings : LifecycleCall(status, info)
    \/ LifecycleReturn

SpecLife == Init /\ [][NextLife]_vars

\* watchdog pretimeout notifications on every cpu
NextWdt ==
    \/ \E c \in Cpus : WdtNotify(c)
    \/ \E c \in Cpus : WdtCmpxchg(c)
    \/ \E c \in Cpus : WdtPoweroff(c)

SpecWdt == Init /\ [][NextWdt]_vars

\* registrations and unregistrations of notifier blocks in any order
InitBus == Boot(RemoteMsg(PING, MaxSeed), TRUE)

NextBus ==
    \/ \E nb \in NotifBlocks : BusRegister(nb)
    \/ \E nb \in NotifBlocks : BusUnregister(nb)

SpecBus == InitBus /\ [][NextBus]_vars

\* the user device with threads inside poll, read and write while it is
\* closed, and the interrupt handler on another cpu
InitFops == \E ui \in BOOLEAN : Boot(RemoteMsg(PING, MaxSeed), ui)

NextFops ==
    \/ \E mode \in OpenModes : UserOpen(mode)
    \/ \E k \in 1..MaxOpens : UserRelease(k)
    \/ \E t \in PollThreads, ev \in PollEvents : UserPollSleep(t, ev)
    \/ \E t \in PollThreads : UserPollWake(t)
    \/ \E t \in PollThreads, op \in {"read", "write"} : UserFopEnter(t, op)
    \/ \E t \in PollThreads : UserFopRead(t)
    \/ \E t \in PollThreads : UserFopWrite(t)
    \/ \E ev \in {HPSC_MBOX_EVENT_A, HPSC_MBOX_EVENT_B} : UserIsrEnter(ev)
    \/ UserRxLocked
    \/ UserAckLocked
    \/ IsrClear("U")
    \/ RemoteSend("U")
    \/ RemoteSeeAck("U")
    \/ RemoteConsume("U")

SpecFops == InitFops /\ [][NextFops]_vars

\* the receive paths and the user device side by side.  The two share no
\* variable (the user device has its own mailbox instance), so a behaviour
\* exercises one of them: the receive paths with any envelope, or the user
\* device with its file operations.
HwReset == [cause |-> 0, ie |-> 0, data |-> ZeroMsg]

UserUntouched ==
    /\ udev = UdevInit /\ ufiles = << >> /\ ulast.op = "none" /\ ~ oops
    /\ hw["U"] = HwReset /\ ~ rWait["U"] /\ link["U"] = NoClient

RecvUntouched ==
    /\ handlers = {} /\ ~ shmTask
    /\ \A n \in KInst : hw[n] = HwReset /\ ~ rWait[n] /\ link[n] = NoClient
    /\ shmIn.status = 0 /\ shmOut.status = 0

InitExt == InitRecv \/ InitUser

NextExt ==
    \/ UserUntouched /\ uInbound /\ NextRecv
    \/ RecvUntouched /\ rmsg = RemoteMsg(PING, MaxSeed) /\ NextUser

SpecExt == InitExt /\ [][NextExt]_vars

\* ------------------------------------------------------------------------
\* Properties
\* ------------------------------------------------------------------------
TryAgain == BitOr(NOTIFY_STOP_MASK, EAGAIN)

\* the transport's return value in pass `walk` shows it accepted the message
SomeAccepted(walk) == \E k \in 1..Len(walk) : walk[k][2] = NOTIFY_STOP

\* a step that is an open(2) of the user device
OpenStep == ulast' # ulast /\ ulast'.op = "open"

\* C1: on the user device at most one client is attached: the channel
\* reference is set iff exactly one open is in effect (and then the instance
\* has exactly that client), and an open attempted while it is set returns
\* -EBUSY, attaches nothing and leaves the device's rx/tx flags as they were.
C1_OneClient ==
    /\ [](/\ Len(ufiles) <= 1
          /\ udev.channel <=> Len(ufiles) = 1
          /\ link["U"].attached <=> udev.channel)
    /\ [][(udev.channel /\ OpenStep) =>
            /\ ulast'.ret = 0 - EBUSY
            /\ udev' = udev
            /\ link' = link
            /\ ufiles' = ufiles]_vars

\* C1 witness: an open was refused with -EBUSY while a message was pending
\* for the client that holds the device
C1_BusyRefused ==
    /\ ulast = [op |-> "open", ret |-> 0 - EBUSY, data |-> << >>]
    /\ udev.channel
    /\ udev.rx_msg_pending
    /\ Len(ufiles) = 1

\* C2: on an outbound channel a second payload is never handed to the
\* controller while the tx-done of the previous one has not arrived: at most
\* one payload is in flight on the user device's and on the kernel client's
\* outbound instance.
C2_OneInFlight == inflight["U"] <= 1 /\ inflight["KO"] <= 1

\* C3: every received message gets exactly one rx-ack pulse (event B): once
\* the kernel client's up-call has returned, and once the user has read the
\* message, one pulse has been issued; never two, and none before.
C3_OneRxAck ==
    /\ \A n \in Inst : acks[n] <= 1
    /\ isr["KI"] = "clear" => acks["KI"] = 1
    /\ (udev.channel /\ udev.incoming /\ got["U"] /\ ~ udev.rx_msg_pending)
          => acks["U"] = 1
    /\ (udev.channel /\ udev.incoming /\ udev.rx_msg_pending) => acks["U"] = 0

\* C4: with both transports registered and both able to accept, a successful
\* hpsc_notif_send puts the envelope in the shared-memory out region (NEW goes
\* from 0 to 1) and leaves the mailbox's registers alone.
C4_ShmemDelivers ==
    [][\A c \in Ctx :
        (/\ snd[c].pc = "loop"
         /\ handlers = Transports
         /\ ~ is_new(shmOut)
         /\ kdev["KO"].send_ack
         /\ snd'[c].pc = "done"
         /\ snd'[c].ret = 0)
        => (/\ is_new(shmOut')
            /\ shmOut'.data = snd[c].msg
            /\ hw'["KO"] = hw["KO"])]_vars

\* C5: a transport that returns TryAgain (NOTIFY_STOP_MASK | EAGAIN) is the
\* last one the pass invokes, and the call that ends with that pass returns
\* the TryAgain code.
C5_TryAgainStops ==
    \A c \in Ctx : \A k \in 1..Len(snd[c].last) :
        snd[c].last[k][2] = TryAgain =>
            /\ k = Len(snd[c].last)
            /\ snd[c].pc = "done" => snd[c].ret = TryAgain

\* C5 witness: with both transports registered, the first one of the chain
\* returned TryAgain and the call ended there
C5_StoppedAtFirst ==
    /\ handlers = Transports
    /\ snd["caller"].pc = "done"
    /\ Len(snd["caller"].last) = 1
    /\ snd["caller"].last[1][2] = TryAgain
    /\ snd["caller"].ret = TryAgain

\* C6: a send that fails with TryAgain is tried again up to `retries` more
\* times: a call ends with TryAgain only after retries + 1 passes.
C6_RetryBudget ==
    \A c \in Ctx :
        (/\ snd[c].pc = "done"
         /\ snd[c].last # << >>
         /\ snd[c].last[Len(snd[c].last)][2] = TryAgain)
        => snd[c].i = retries

\* C7: hpsc_notif_send returns -ENODEV when no transport was called, and the
\* return value of the last transport called when none accepted.
C7_LastError ==
    \A c \in Ctx : snd[c].pc = "done" =>
        /\ snd[c].nr_calls = 0 => snd[c].ret = 0 - ENODEV
        /\ (snd[c].nr_calls > 0 /\ ~ SomeAccepted(snd[c].last))
              => snd[c].ret = snd[c].last[Len(snd[c].last)][2]

\* C7 witness: two transports were called, the first failed with an error
\* other than TryAgain, and the call returned what the second one returned
C7_SecondError ==
    /\ snd["caller"].pc = "done"
    /\ Len(snd["caller"].last) = 2
    /\ snd["caller"].last[1][2] = EIO
    /\ ~ SomeAccepted(snd["caller"].last)
    /\ snd["caller"].ret = snd["caller"].last[2][2]

\* C8: hpsc_notif_send returns 0 iff a transport accepted the message, and a
\* negative error code otherwise.
C8_ZeroOrNegative ==
    \A c \in Ctx : snd[c].pc = "done" =>
        /\ snd[c].ret = 0 <=> SomeAccepted(snd[c].last)
        /\ snd[c].ret <= 0

\* C9: hpsc_msg_process returns 0 for every tag below HPSC_MSG_TYPE_COUNT,
\* and only PING makes it send a message; for a tag of HPSC_MSG_TYPE_COUNT or
\* more it returns -EINVAL, calls no handler and sends nothing.
C9_Dispatch ==
    \A c \in RxCtx : rx[c].pc # "idle" =>
        LET t == rx[c].msg[1]
        IN  /\ t < HPSC_MSG_TYPE_COUNT =>
                /\ rx[c].ret = 0
                /\ rx[c].cb # "none"
                /\ t # PING => rx[c].sent = 0 /\ snd[c].pc = "idle"
            /\ t >= HPSC_MSG_TYPE_COUNT =>
                /\ rx[c].ret = 0 - EINVAL
                /\ rx[c].cb = "none"
                /\ rx[c].sent = 0
                /\ snd[c].pc = "idle"

\* C9 witness: an envelope whose tag is HPSC_MSG_TYPE_COUNT was refused
C9_Refused ==
    /\ rx["mboxrx"].pc = "fin"
    /\ rx["mboxrx"].msg[1] = HPSC_MSG_TYPE_COUNT
    /\ rx["mboxrx"].ret = 0 - EINVAL

\* C10: for a PING the dispatcher makes exactly one call of hpsc_notif_send,
\* with an envelope whose byte 0 is PONG and whose bytes 1..63 are the
\* PING's.
C10_PingEcho ==
    \A c \in RxCtx : (rx[c].pc # "idle" /\ rx[c].msg[1] = PING) =>
        /\ rx[c].sent = 1
        /\ snd[c].pc # "idle"
        /\ snd[c].msg[1] = PONG
        /\ \A k \in 2..HPSC_MSG_SIZE : snd[c].msg[k] = rx[c].msg[k]

\* C10 witness: the reply to a PING with a non-zero payload went out through
\* the mailbox
C10_PongSent ==
    /\ rx["mboxrx"].pc = "send"
    /\ rx["mboxrx"].msg[1] = PING
    /\ rx["mboxrx"].msg[HPSC_MSG_SIZE] # 0
    /\ snd["mboxrx"].pc = "done"
    /\ snd["mboxrx"].ret = 0
    /\ hw["KO"].data = snd["mboxrx"].msg

\* the entry of transport tp in a pass of the chain
InvokedAt(walk, tp) == { k \in 1..Len(walk) : walk[k][1] = tp }

\* C11: hpsc_msg_tp_shmem_send on an out region with NEW set returns TryAgain
\* and leaves the slot and the status word as they were; with NEW clear it
\* copies the envelope into the slot and sets NEW.
C11_ShmemSend ==
    [][\A c \in Ctx : \A k \in InvokedAt(snd'[c].last, "SHMEM") :
        SendAttempt(c) =>
            IF is_new(shmOut)
            THEN /\ snd'[c].last[k][2] = TryAgain
                 /\ shmOut' = shmOut
            ELSE /\ snd'[c].last[k][2] = NOTIFY_STOP
                 /\ shmOut'.data = snd[c].msg
                 /\ shmOut'.status = BitOr(shmOut.status, HPSC_SHMEM_STATUS_BIT_NEW)]_vars

\* C11 witness: a send was refused with TryAgain and the slot still holds
\* the earlier, different envelope
C11_SlotKept ==
    /\ snd["caller"].pc = "done"
    /\ snd["caller"].last # << >>
    /\ snd["caller"].last[Len(snd["caller"].last)] = << "SHMEM", TryAgain >>
    /\ is_new(shmOut)
    /\ shmOut.data # snd["caller"].msg

\* the text of a nul-terminated string that starts at buf[k]
RECURSIVE CStr(_, _)
CStr(buf, k) ==
    IF k > Len(buf) \/ buf[k] = 0 THEN << >> ELSE << buf[k] >> \o CStr(buf, k + 1)

\* reading a LIFECYCLE envelope back: u32 status at payload offset 0, then
\* the nul-terminated text
ReadLifecycle(msg) ==
    [status |-> msg[HPSC_MSG_PAYLOAD_OFFSET + 1] + 256 * msg[HPSC_MSG_PAYLOAD_OFFSET + 2]
                + 65536 * msg[HPSC_MSG_PAYLOAD_OFFSET + 3]
                + 16777216 * msg[HPSC_MSG_PAYLOAD_OFFSET + 4],
     info |-> CStr(SubSeq(msg, HPSC_MSG_PAYLOAD_OFFSET + 5, HPSC_MSG_SIZE), 1)]

\* C12: the envelope hpsc_msg_lifecycle builds for (status, info) reads back
\* as the same (status, info) whenever info with its terminating nul fits in
\* the 56 bytes of the info field.
C12_LifecycleRoundTrip ==
    (enc.pc = "built" /\ Len(enc.info) + 1 <= LIFECYCLE_INFO_SIZE) =>
        /\ enc.msg[1] = LIFECYCLE
        /\ ReadLifecycle(enc.msg) = [status |-> enc.status, info |-> enc.info]

\* C13: on an outgoing user device a read before the tx-done interrupt
\* returns -EAGAIN; a read once tx-done has set send_ack returns the 4 bytes
\* of the status and clears send_ack, in the first write/ack cycle on the
\* open file and in every later one.
C13_AckRead ==
    [][\A k \in 1..MaxOpens :
        (UserRead(k) /\ udev.channel /\ ~ udev.incoming) =>
            IF udev.send_ack
            THEN /\ ulast'.ret = 4
                 /\ ulast'.data = U32LE(udev.send_rc)
                 /\ ~ udev'.send_ack
            ELSE ulast'.ret = 0 - EAGAIN]_vars

\* C14: on an incoming user device a read with a message pending returns the
\* 64 bytes of that message and clears the pending flag, for the first
\* message read through the open file and for every later one; a read with
\* nothing pending returns -EAGAIN, pulses no rx-ack and changes no state.
C14_PayloadRead ==
    [][\A k \in 1..MaxOpens :
        (UserRead(k) /\ udev.channel /\ udev.incoming) =>
            IF udev.rx_msg_pending
            THEN /\ ulast'.ret = MBOX_MAX_MSG_LEN
                 /\ ulast'.data = udev.message
                 /\ ~ udev'.rx_msg_pending
            ELSE /\ ulast'.ret = 0 - EAGAIN
                 /\ hw' = hw
                 /\ udev' = udev
                 /\ ufiles' = ufiles
                 /\ acks' = acks]_vars

\* C15: closing an incoming user device with a message pending makes the
\* controller pulse event B (the nack) with DATA and event A untouched, and
\* then detaches the channel; closing with nothing pending pulses nothing;
\* either way an open that follows succeeds.
C15_CloseNack ==
    [][\A k \in 1..MaxOpens :
        (UserRelease(k) /\ udev.channel /\ udev.incoming) =>
            /\ ~ oops'
            /\ ~ udev'.channel
            /\ link'["U"] = NoClient
            /\ hw'["U"].data = hw["U"].data
            /\ HasBit(hw'["U"].cause, HPSC_MBOX_EVENT_A)
                  <=> HasBit(hw["U"].cause, HPSC_MBOX_EVENT_A)
            /\ IF udev.rx_msg_pending
               THEN HasBit(hw'["U"].cause, HPSC_MBOX_EVENT_B)
               ELSE hw'["U"].cause = hw["U"].cause
            /\ mbox_open(udev', "r", link'["U"].attached).ret = 0]_vars

\* C16: a write of more than 64 bytes to an open outgoing user device returns
\* -EINVAL, sends nothing, and leaves the message buffer, send_ack and
\* send_rc as they were.
C16_TooLong ==
    /\ [](udev.channel /\ ~ udev.incoming =>
            \A buf \in UserBufs, fault \in BOOLEAN, fail \in BOOLEAN :
            \A count \in { n \in UserCounts : n > MBOX_MAX_MSG_LEN } :
                LET r == mbox_write(udev, buf, count, fault, fail)
                IN  r.ret = 0 - EINVAL /\ ~ r.send /\ r.dev = udev)
    /\ [][\A k \in 1..MaxOpens :
            (UserWrite(k) /\ ulast'.ret = 0 - EINVAL) =>
                hw' = hw /\ udev' = udev /\ inflight' = inflight]_vars

\* C16 witness: a write was refused with -EINVAL while an ack was waiting to
\* be read and the buffer held the earlier message
C16_Refused ==
    /\ ulast = [op |-> "write", ret |-> 0 - EINVAL, data |-> << >>]
    /\ udev.channel
    /\ udev.send_ack
    /\ udev.message # ZeroMsg

\* C17: the mask mbox_poll returns on an open device has the readable bits
\* exactly when rx_msg_pending or send_ack is set and the writable bits
\* exactly when send_ack is clear.
C17_PollMask ==
    [][\A k \in 1..MaxOpens :
        (UserPoll(k) /\ udev.channel) =>
            /\ HasBit(ulast'.ret, POLLIN) <=> (udev.rx_msg_pending \/ udev.send_ack)
            /\ HasBit(ulast'.ret, POLLRDNORM) <=> (udev.rx_msg_pending \/ udev.send_ack)
            /\ HasBit(ulast'.ret, POLLOUT) <=> ~ udev.send_ack
            /\ HasBit(ulast'.ret, POLLWRNORM) <=> ~ udev.send_ack]_vars

\* C17 witness: poll reported readable and not writable while an ack waited
C17_ReadableOnly ==
    /\ ulast = [op |-> "poll", ret |-> POLLIN + POLLRDNORM, data |-> << >>]
    /\ udev.channel
    /\ udev.send_ack

C20_NoLostMessage ==
    (/\ uInbound
     /\ rWait["U"]
     /\ got["U"]
     /\ udev.channel
     /\ udev.incoming
     /\ ~ udev.rx_msg_pending
     /\ isr["U"] = "idle"
     /\ ~ oops)
    => \/ HasBit(hw["U"].cause, HPSC_MBOX_EVENT_A)
       \/ HasBit(hw["U"].cause, HPSC_MBOX_EVENT_B)

\* a step of the controller's interrupt handler on the user instance
UserIsrStep == UserRxUpcall \/ IsrClear("U") \/ UserAckIrq

\* C21: when event A is raised on the user instance after its client was
\* detached by a close, the interrupt handler has a step to take for it that
\* skips the up-call and pulses the nack (event B), so the remote that waits
\* for an acknowledgement is not left waiting.
C21_DetachedNack ==
    (/\ uInbound
     /\ rWait["U"]
     /\ ulast.op = "release"
     /\ udev.incoming
     /\ ~ link["U"].attached
     /\ HasBit(hw["U"].cause, HPSC_MBOX_EVENT_A)
     /\ isr["U"] = "idle"
     /\ ~ oops)
    => ENABLED (/\ UserIsrStep
                /\ HasBit(hw'["U"].cause, HPSC_MBOX_EVENT_B)
                /\ udev' = udev)

\* C22: while the in-kernel client initialises, the inbound channel is open
\* only when the outbound channel is open and the client is registered on
\* the bus.
C22_OutboundFirst ==
    kdev["KI"].channel => kdev["KO"].channel /\ "MAILBOX" \in handlers

\* C23: a PING that arrives while the inbound channel is being opened is
\* dispatched only once the bus has a registered send path, and the receive
\* up-call that waits for the channel lock held by the initialisation does
\* not deadlock it.
C23_PingDuringOpen ==
    /\ rx["mboxrx"].pc # "idle" => handlers # {}
    /\ ~ probe.stuck

\* C24: the PONG send started by a PING dispatched in a receive path always
\* returns: it never waits for a lock whose holder cannot run, and the bus
\* itself holds no lock, so a dispatch is never held back by a send in
\* progress.
C24_PongReturns ==
    /\ snd["mboxrx"].pc # "spin_same"
    /\ \A c \in RxCtx : rx[c].pc = "send" => snd[c].pc # "idle"

\* C25: with the remote following the region protocol, no NEW bit is lost to
\* the updates of the shared status words: a message published in the in
\* region and not yet dispatched still has NEW set and is dispatched once,
\* and a message accepted by hpsc_msg_tp_shmem_send and not yet observed by
\* the remote still has NEW set and is not overwritten.
C25_NoLostNew ==
    /\ shm.disp <= shm.pub
    /\ shm.pub <= shm.disp + 1
    /\ shm.pub > shm.disp => is_new(shmIn)
    /\ shm.obs <= shm.acc
    /\ shm.acc <= shm.obs + 1
    /\ shm.acc > shm.obs => is_new(shmOut)

\* C26: the poll task starts a dispatch only for an in-region message whose
\* NEW bit it saw set, hands its payload to the bus once, and clears NEW and
\* sets ACK only after that dispatch has returned; while NEW is clear and the
\* task is idle, nothing but the remote's next message changes the status
\* word.
C26_PollOnce ==
    /\ [](shm.disp <= shm.pub)
    /\ [][(rx["shmrx"].pc = "idle" /\ rx'["shmrx"].pc # "idle") =>
            /\ HasBit(shmIn.status, HPSC_SHMEM_STATUS_BIT_NEW)
            /\ rx'["shmrx"].msg = shmIn.data
            /\ shmIn' = shmIn]_vars
    /\ [][(\/ HasBit(shmIn.status, HPSC_SHMEM_STATUS_BIT_NEW)
              /\ ~ HasBit(shmIn'.status, HPSC_SHMEM_STATUS_BIT_NEW)
           \/ ~ HasBit(shmIn.status, HPSC_SHMEM_STATUS_BIT_ACK)
              /\ HasBit(shmIn'.status, HPSC_SHMEM_STATUS_BIT_ACK)) =>
            Dispatched("shmrx") /\ rx["shmrx"].msg = shmIn.data]_vars
    /\ [][(/\ ~ HasBit(shmIn.status, HPSC_SHMEM_STATUS_BIT_NEW)
           /\ rx["shmrx"].pc = "idle"
           /\ shm.lpc = "idle"
           /\ shmIn'.status # shmIn.status) =>
            shm'.pub = shm.pub + 1 /\ rx' = rx]_vars

\* C26 witness: two messages were published, each was dispatched once and
\* acknowledged, and the task is idle with NEW clear
C26_TwoAcked ==
    /\ shm.pub = 2
    /\ shm.disp = 2
    /\ shm.lpc = "idle"
    /\ rx["shmrx"].pc = "idle"
    /\ shmIn.status = HPSC_SHMEM_STATUS_BIT_ACK

\* C27: on the bus at most one handler is registered per priority at any
\* time: a register at an occupied priority returns -EBUSY and leaves the
\* occupant where it is, and after an unregister of the occupant a register
\* at that priority succeeds.
C27_OnePerPriority ==
    /\ [](\A p \in 0..(HPSC_NOTIF_PRIORITY_COUNT - 1) :
            Cardinality(AtPriority(bus.chain, p)) <= 1)
    /\ [][\A nb \in NotifBlocks :
            BusRegister(nb) =>
                IF AtPriority(bus.chain, nb.priority) # {}
                THEN bus'.ret = 0 - EBUSY /\ bus'.chain = bus.chain
                ELSE bus'.ret = 0 /\ AtPriority(bus'.chain, nb.priority) # {}]_vars
    /\ [][\A nb \in NotifBlocks :
            (BusUnregister(nb) /\ AtPriority(bus.chain, nb.priority) # {}
                /\ bus.chain[CHOOSE k \in AtPriority(bus.chain, nb.priority) : TRUE] = nb)
            => /\ AtPriority(bus'.chain, nb.priority) = {}
               /\ hpsc_notif_register(bus'.chain, nb).ret = 0]_vars

\* the same statement about the handlers[] table of the earlier file
TableOnePerPriority ==
    /\ [](\A nb \in NotifBlocks :
            /\ bus.table[nb.priority] = nb => nb \in bus.live
            /\ bus.table[nb.priority] \in NotifBlocks \cup {NoBlock})
    /\ [][\A nb \in NotifBlocks :
            BusRegister(nb) =>
                IF bus.table[nb.priority] # NoBlock
                THEN bus'.tret = 0 - EBUSY /\ bus'.table = bus.table
                ELSE bus'.tret = 0 /\ bus'.table[nb.priority] = nb]_vars
    /\ [][\A nb \in NotifBlocks :
            (BusUnregister(nb) /\ bus.table[nb.priority] = nb)
            => /\ bus'.table[nb.priority] = NoBlock
               /\ table_register(bus'.table, nb).ret = 0]_vars

\* C28: a message that arrives on an incoming user device while the previous
\* one is still unread leaves the pending buffer and the pending flag as they
\* are, is dropped, and is answered with a nack: event B is pulsed, with DATA
\* and event A left alone, and nothing faults.
C28_FullNack ==
    [][(UserRxUpcall /\ udev.channel /\ udev.incoming /\ udev.rx_msg_pending) =>
            /\ ~ oops'
            /\ udev'.message = udev.message
            /\ udev'.rx_msg_pending
            /\ udev' = udev
            /\ HasBit(hw'["U"].cause, HPSC_MBOX_EVENT_B)
            /\ hw'["U"].data = hw["U"].data]_vars

\* C29: closing the user device wakes every thread asleep in poll on the
\* device's wait queue, and a woken poll that finds the device closed returns
\* with a closed indication, a mask that is not the empty one.
C29_CloseWakes ==
    /\ [][\A k \in 1..MaxOpens :
            (UserRelease(k) /\ udev.channel /\ ~ udev'.channel) =>
                \A t \in PollThreads : wq[t].st = "sleep" => wq'[t].st = "woken"]_vars
    /\ [][\A t \in PollThreads :
            (UserPollWake(t) /\ ~ udev.channel) =>
                /\ wq'[t].st = "out"
                /\ ulast'.op = "poll"
                /\ ulast'.ret # 0]_vars

\* C30: read and write on a device whose channel is closed return -ENODEV,
\* touch neither the controller nor the device's flags and buffer; a
\* received-message or sent up-call that takes the lock after the close
\* changes nothing in the device, sends nothing and wakes no thread.
C30_AfterClose ==
    /\ [][\A t \in PollThreads :
            (UserFopRead(t) /\ ~ udev.channel) =>
                /\ ulast' = [op |-> "read", ret |-> 0 - ENODEV, data |-> << >>]
                /\ udev' = udev /\ hw' = hw /\ acks' = acks /\ ufiles' = ufiles]_vars
    /\ [][\A t \in PollThreads :
            (UserFopWrite(t) /\ ~ udev.channel) =>
                /\ ulast' = [op |-> "write", ret |-> 0 - ENODEV, data |-> << >>]
                /\ udev' = udev /\ hw' = hw /\ inflight' = inflight]_vars
    /\ [][((UserRxLocked \/ UserAckLocked) /\ ~ udev.channel) =>
                /\ udev' = udev
                /\ \A t \in PollThreads : wq'[t] = wq[t]
                /\ hw'["U"].data = hw["U"].data
                /\ ~ HasBit(hw'["U"].cause, HPSC_MBOX_EVENT_A)
                      \/ HasBit(hw["U"].cause, HPSC_MBOX_EVENT_A)
                /\ ~ oops']_vars

\* a read that began before the close has returned -ENODEV on the closed
\* device, with the interrupt handler waiting for the lock
C30_ReadRefused ==
    /\ ~ udev.channel
    /\ ulast = [op |-> "read", ret |-> 0 - ENODEV, data |-> << >>]
    /\ isr["U"] \in {"rx_lock", "tx_lock"}

\* C31: on an outgoing user device the status a read returns is the tx-done
\* status of the most recently written message, never that of an earlier
\* write: a status is readable only once the remote has taken the message
\* of the last write, so event A of that write is no longer raised when the
\* status is read.
C31_LatestStatus ==
    [][\A k \in 1..MaxOpens :
        (UserRead(k) /\ udev.channel /\ ~ udev.incoming /\ udev.send_ack) =>
            ~ HasBit(hw["U"].cause, HPSC_MBOX_EVENT_A)]_vars

REG_CONFIG__UNSECURE == 1

\* the CONFIG word of owner, src and dest: each field masked to eight bits
ConfigWord(owner, src, dest) ==
    (owner % 256) * 256 + (src % 256) * 65536 + (dest % 256) * 16777216
        + REG_CONFIG__UNSECURE
ConfigOwner(config) == (config \div 256) % 256
ConfigSrc(config) == (config \div 65536) % 256
ConfigDest(config) == (config \div 16777216) % 256

\* the mbox cells of the clients' device-tree nodes (owner, src, dest): none
\* given, the owner of the instance, the peer of an instance owned by the
\* remote, and an owner whose src does not fit the eight bits of the field
DtArgs ==
    {NoDt, [owner |-> 1, src |-> 1, dest |-> 2], [owner |-> 0, src |-> 2, dest |-> 1],
     [owner |-> 1, src |-> 257, dest |-> 2]}

\* the CONFIG word the remote owner writes to an instance it owns
PeerConfigs == {ConfigWord(2, 2, 1)}

\* the INT-ENABLE bits another entity sets: an event routed to its own
\* interrupt index, and event B at the index of this bank's ack interrupt
PeerEnables == {HPSC_MBOX_INT_A(ack_int_idx), HPSC_MBOX_INT_B(ack_int_idx)}

\* the clients of the model: a receiver, a sender, and one with both callbacks
MbClients ==
    {[attached |-> TRUE, rx_callback |-> TRUE, tx_done |-> FALSE],
     [attached |-> TRUE, rx_callback |-> FALSE, tx_done |-> TRUE],
     [attached |-> TRUE, rx_callback |-> TRUE, tx_done |-> TRUE]}

\* hpsc_mbox_maybe_claim_owner; accept tells whether the write to CONFIG took
\* effect, which the read back finds out
hpsc_mbox_maybe_claim_owner(r, ch, accept) ==
    IF ch.owner # 0
    THEN LET config == ConfigWord(ch.owner, ch.src, ch.dest)
             r1 == IF accept THEN [r EXCEPT !.config = config] ELSE r
         IN  [reg |-> r1, ret |-> IF r1.config # config THEN 0 - EBUSY ELSE 0]
    ELSE [reg |-> r, ret |-> 0]

\* hpsc_mbox_maybe_release_owner that never writes CONFIG
hpsc_mbox_maybe_release_owner_keep(r, ch) == r

\* hpsc_mbox_maybe_release_owner
hpsc_mbox_maybe_release_owner(r, ch) ==
    IF ch.owner # 0 THEN [r EXCEPT !.config = 0] ELSE r

\* hpsc_mbox_verify_config
hpsc_mbox_verify_config(r, ch, is_recv, is_send) ==
    IF ch.src # 0 \/ ch.dest # 0
    THEN IF \/ is_recv /\ ch.dest # 0 /\ ConfigDest(r.config) # ch.dest
            \/ is_send /\ ch.src # 0 /\ ConfigSrc(r.config) # ch.src
         THEN 0 - EBUSY
         ELSE 0
    ELSE 0

\* the whole of hpsc_mbox_startup: claim, verify (the claim is released when
\* the verification fails), then the interrupt enables
StartupChan(r, ch, cl, accept) ==
    LET c == hpsc_mbox_maybe_claim_owner(r, ch, accept)
        v == hpsc_mbox_verify_config(c.reg, ch, cl.rx_callback, cl.tx_done)
    IN  IF c.ret # 0 THEN [reg |-> c.reg, ret |-> c.ret, at |-> "claim"]
        ELSE IF v # 0
        THEN [reg |-> hpsc_mbox_maybe_release_owner(c.reg, ch), ret |-> v, at |-> "verify"]
        ELSE [reg |-> hpsc_mbox_startup(c.reg, cl), ret |-> 0, at |-> "ok"]

\* the whole of hpsc_mbox_shutdown: the interrupt enables, then the release
ShutdownChan(r, ch) == hpsc_mbox_maybe_release_owner(hpsc_mbox_shutdown(r), ch)

\* the interrupt bit hpsc_mbox_rcv_irq and hpsc_mbox_ack_irq hand to the scan
IsrInterrupt(event) ==
    IF event = HPSC_MBOX_EVENT_A THEN HPSC_MBOX_INT_A(rcv_int_idx)
    ELSE HPSC_MBOX_INT_B(ack_int_idx)

\* the loop body of hpsc_mbox_isr without the test of INT-ENABLE
hpsc_mbox_isr_noroute(r, event, interrupt) ==
    IF ~ HasBit(r.cause, event) THEN [reg |-> r, upcall |-> FALSE]
    ELSE [reg |-> [r EXCEPT !.cause = BitClear(@, event)], upcall |-> TRUE]

\* the loop body of hpsc_mbox_isr for one instance: the registers after it
\* and whether the framework was up-called
hpsc_mbox_isr(r, event, interrupt) ==
    IF ~ HasBit(r.cause, event) THEN [reg |-> r, upcall |-> FALSE]
    ELSE IF ~ HasBit(r.ie, interrupt) THEN [reg |-> r, upcall |-> FALSE]
    ELSE [reg |-> [r EXCEPT !.cause = BitClear(@, event)], upcall |-> TRUE]

MbOthers ==
    << got, hw, link, isr, rWait, kdev, handlers, shmIn, shmOut, shmTask, snd, rx, acks,
       inflight, enc, wdt, probe, shm, bus, wq, kt >>

\* mbox_request_channel on instance i: hpsc_mbox_of_xlate stores the cells of
\* the client's node, then the channel is started; a failed startup leaves
\* the link without a client
MbRequest(i, dt, cl, accept) ==
    /\ ~ mb.cl[i].attached
    /\ LET s == StartupChan(mb.reg[i], dt, cl, accept)
       IN  mb' = [mb EXCEPT !.chan[i] = dt,
                            !.reg[i] = s.reg,
                            !.res = [i |-> i, ret |-> s.ret, at |-> s.at],
                            !.cl[i] = IF s.ret = 0 THEN cl ELSE NoClient]
    /\ UNCHANGED MbOthers
    /\ UNCHANGED userVars

\* mbox_free_channel on instance i: hpsc_mbox_shutdown, the client detached
MbFree(i) ==
    /\ mb.cl[i].attached
    /\ mb' = [mb EXCEPT !.reg[i] = ShutdownChan(@, mb.chan[i]),
                        !.res = [i |-> i, ret |-> 0, at |-> "shutdown"],
                        !.cl[i] = NoClient]
    /\ UNCHANGED MbOthers
    /\ UNCHANGED userVars

\* the remote claims an instance nobody has claimed
MbPeerClaim(i, config) ==
    /\ mb.reg[i].config = 0
    /\ ~ mb.cl[i].attached
    /\ mb' = [mb EXCEPT !.reg[i].config = config]
    /\ UNCHANGED MbOthers
    /\ UNCHANGED userVars

\* another entity enables an interrupt of instance i
MbPeerEnable(i, bit) ==
    /\ ~ HasBit(mb.reg[i].ie, bit)
    /\ mb' = [mb EXCEPT !.reg[i].ie = BitOr(@, bit)]
    /\ UNCHANGED MbOthers
    /\ UNCHANGED userVars

\* the remote raises an event of instance i: A with a message, B with an ack
MbRemoteEvent(i, event) ==
    /\ ~ HasBit(mb.reg[i].cause, event)
    /\ mb' = [mb EXCEPT !.reg[i].cause = BitOr(@, event)]
    /\ UNCHANGED MbOthers
    /\ UNCHANGED userVars

\* hpsc_mbox_rcv_irq / hpsc_mbox_ack_irq: the line is raised by an instance
\* whose event is pending and routed to it; the scan starts at instance 0
MbIrq(event) ==
    /\ mb.scan.pc = "idle"
    /\ \E i \in MbInst :
        HasBit(mb.reg[i].cause, event) /\ HasBit(mb.reg[i].ie, IsrInterrupt(event))
    /\ mb' = [mb EXCEPT !.scan = [pc |-> "scan", event |-> event, i |-> 0],
                        !.calls = << >>]
    /\ UNCHANGED MbOthers
    /\ UNCHANGED userVars

\* one pass of the loop of hpsc_mbox_isr
MbIsrStep ==
    /\ mb.scan.pc = "scan"
    /\ LET i == mb.scan.i
           v == hpsc_mbox_isr(mb.reg[i], mb.scan.event, IsrInterrupt(mb.scan.event))
       IN  mb' = [mb EXCEPT !.reg[i] = v.reg,
                            !.calls = IF v.upcall THEN Append(@, i) ELSE @,
                            !.scan = IF i + 1 < NumChans THEN [@ EXCEPT !.i = i + 1]
                                     ELSE MbScanIdle]
    /\ UNCHANGED MbOthers
    /\ UNCHANGED userVars

\* channels requested and freed while the remote claims instances and other
\* entities enable interrupts; no event is raised
InitCfg == Boot(ZeroMsg, TRUE)

NextCfg ==
    \/ \E i \in MbInst, dt \in DtArgs, cl \in MbClients, accept \in BOOLEAN :
          MbRequest(i, dt, cl, accept)
    \/ \E i \in MbInst : MbFree(i)
    \/ \E i \in MbInst, config \in PeerConfigs : MbPeerClaim(i, config)
    \/ \E i \in MbInst, bit \in PeerEnables : MbPeerEnable(i, bit)

SpecCfg == InitCfg /\ [][NextCfg]_vars

\* events and interrupts on channels whose clients gave no owner, src or dest
InitIsr == Boot(ZeroMsg, TRUE)

NextIsr ==
    \/ \E i \in MbInst, cl \in MbClients : MbRequest(i, NoDt, cl, TRUE)
    \/ \E i \in MbInst : MbFree(i)
    \/ \E i \in MbInst, event \in {HPSC_MBOX_EVENT_A, HPSC_MBOX_EVENT_B} :
          MbRemoteEvent(i, event)
    \/ \E event \in {HPSC_MBOX_EVENT_A, HPSC_MBOX_EVENT_B} : MbIrq(event)
    \/ MbIsrStep

SpecIsr == InitIsr /\ [][NextIsr]_vars


\* ------------------------------------------------------------------------
\* The poll task of the shared-memory transport and its teardown (part_009)
\* ------------------------------------------------------------------------
\* events the model counts after kthread_stop
MaxAfterStop == 2

\* hpsc_msg_tp_shmem_recv whose loop does not test kthread_should_stop
hpsc_msg_tp_shmem_recv_nostop(pc, stop, new) ==
    IF pc = "test" THEN "body"
    ELSE IF pc = "body" THEN (IF new THEN "recv" ELSE "sleep")
    ELSE IF pc = "recv" THEN "sleep"
    ELSE "test"

\* hpsc_msg_tp_shmem_recv: the position after the one at pc; test is the
\* condition of the while loop, body the test of is_new, recv the dispatch,
\* sleep the call of msleep_interruptible
hpsc_msg_tp_shmem_recv(pc, stop, new) ==
    IF pc = "test" THEN (IF stop THEN "exited" ELSE "body")
    ELSE IF pc = "body" THEN (IF new THEN "recv" ELSE "sleep")
    ELSE IF pc = "recv" THEN "sleep"
    ELSE "test"

KtNext == hpsc_msg_tp_shmem_recv(kt.pc, kt.stop, is_new(shmIn))

KtCount(n) == IF n < MaxAfterStop THEN n + 1 ELSE n

KtOthers ==
    << got, hw, link, isr, rWait, kdev, shmOut, shmTask, acks, inflight, enc, wdt, probe,
       shm, bus, wq, mb >>

\* hpsc_msg_tp_shmem_probe: register on the bus, then kthread_run
KtProbe ==
    /\ kt.pc \in {"none", "exited"} /\ kt.rm \in {"none", "done"}
    /\ handlers' = handlers \cup {"SHMEM"}
    /\ kt' = [KtInit EXCEPT !.pc = "test"]
    /\ UNCHANGED << shmIn, snd, rx >>
    /\ UNCHANGED KtOthers
    /\ UNCHANGED userVars

\* the condition of the while loop: kthread_should_stop
KtTest ==
    /\ kt.pc = "test"
    /\ kt' = [kt EXCEPT !.pc = KtNext]
    /\ UNCHANGED << handlers, shmIn, snd, rx >>
    /\ UNCHANGED KtOthers
    /\ UNCHANGED userVars

\* the test of is_new; a new message goes to hpsc_notif_recv
KtBody ==
    /\ kt.pc = "body"
    /\ kt' = [kt EXCEPT !.pc = KtNext,
                        !.after = IF kt.stop /\ is_new(shmIn) THEN KtCount(@) ELSE @]
    /\ IF is_new(shmIn) THEN Dispatch("shmrx", shmIn.data) ELSE UNCHANGED << snd, rx >>
    /\ UNCHANGED << handlers, shmIn >>
    /\ UNCHANGED KtOthers
    /\ UNCHANGED userVars

\* hpsc_notif_recv has returned: clear NEW, set ACK
KtRecvDone ==
    /\ kt.pc = "recv"
    /\ Dispatched("shmrx")
    /\ shmIn' = [shmIn EXCEPT !.status =
                    BitOr(BitClear(@, HPSC_SHMEM_STATUS_BIT_NEW), HPSC_SHMEM_STATUS_BIT_ACK)]
    /\ rx' = [rx EXCEPT !["shmrx"] = RxIdle]
    /\ snd' = [snd EXCEPT !["shmrx"] = SndIdle]
    /\ kt' = [kt EXCEPT !.pc = KtNext]
    /\ UNCHANGED handlers
    /\ UNCHANGED KtOthers
    /\ UNCHANGED userVars

\* msleep_interruptible returns
KtWake ==
    /\ kt.pc = "sleep"
    /\ kt' = [kt EXCEPT !.pc = KtNext, !.wakes = IF kt.stop THEN KtCount(@) ELSE @]
    /\ UNCHANGED << handlers, shmIn, snd, rx >>
    /\ UNCHANGED KtOthers
    /\ UNCHANGED userVars

\* hpsc_msg_tp_shmem_remove calls kthread_stop: the stop is requested and
\* the caller waits for the task to exit
KtStop ==
    /\ kt.pc \notin {"none", "exited"} /\ kt.rm = "none"
    /\ kt' = [kt EXCEPT !.stop = TRUE, !.rm = "wait"]
    /\ UNCHANGED << handlers, shmIn, snd, rx >>
    /\ UNCHANGED KtOthers
    /\ UNCHANGED userVars

\* kthread_stop has returned: hpsc_notif_unregister
KtUnregister ==
    /\ kt.rm = "wait" /\ kt.pc = "exited"
    /\ handlers' = handlers \ {"SHMEM"}
    /\ kt' = [kt EXCEPT !.rm = "done"]
    /\ UNCHANGED << shmIn, snd, rx >>
    /\ UNCHANGED KtOthers
    /\ UNCHANGED userVars

InitStop == \E m \in RemoteMsgs : Boot(m, TRUE)

NextStop ==
    \/ KtProbe
    \/ KtTest
    \/ KtBody
    \/ KtRecvDone
    \/ KtWake
    \/ KtStop
    \/ KtUnregister
    \/ SendAttempt("shmrx")
    \/ RemoteShmemSend

SpecStop == InitStop /\ [][NextStop]_vars

\* C33: every envelope handed to the bus for sending (LIFECYCLE,
\* WATCHDOG_TIMEOUT, PONG) has 64 bytes, its reserved bytes 1..3 are zero, and
\* the payload behind the fields of its type is zero: behind the cpu id of a
\* watchdog timeout, behind the first nul of the info text of a lifecycle
\* message.
C33_ZeroFilled ==
    \A c \in Ctx :
        snd[c].pc # "idle" =>
            LET m == snd[c].msg
            IN  /\ Len(m) = HPSC_MSG_SIZE
                /\ m[1] \in {LIFECYCLE, WATCHDOG_TIMEOUT, PONG}
                /\ \A k \in 2..4 : m[k] = 0
                /\ m[1] = WATCHDOG_TIMEOUT =>
                      \A k \in (HPSC_MSG_PAYLOAD_OFFSET + 5)..HPSC_MSG_SIZE : m[k] = 0
                /\ m[1] = LIFECYCLE =>
                      \A k \in (HPSC_MSG_PAYLOAD_OFFSET + 5)..HPSC_MSG_SIZE :
                          m[k] = 0 => \A j \in k..HPSC_MSG_SIZE : m[j] = 0

\* C34: when the dispatch of a PING has finished and reports success to the
\* receiving transport, the hpsc_notif_send of the PONG reply has returned 0;
\* a reply that no transport accepted makes the dispatcher return an error.
C34_PongAccepted ==
    \A c \in RxCtx :
        (rx[c].cb = "msg_cb_ping" /\ rx[c].pc = "send" /\ snd[c].pc = "done"
            /\ rx[c].ret = 0) => snd[c].ret = 0

\* C35: a write on an open outgoing device that fails (a negative return
\* value) leaves send_ack and send_rc as they were, so a status that has
\* arrived and was not read yet can still be read.
C35_FailedWriteKeeps ==
    [][\A k \in 1..MaxOpens :
        (UserWrite(k) /\ udev.channel /\ ~ udev.incoming /\ ulast'.ret < 0) =>
            /\ udev'.send_ack = udev.send_ack
            /\ udev'.send_rc = udev.send_rc]_vars

\* C36: a startup that fails in the verification of src/dest leaves
\* INT-ENABLE of the instance as it was and the link without a client; the
\* CONFIG a claiming client wrote is cleared, the CONFIG of an instance the
\* client does not claim is as it was.
C36_MismatchClean ==
    [][\A i \in MbInst, dt \in DtArgs, cl \in MbClients, accept \in BOOLEAN :
        (MbRequest(i, dt, cl, accept) /\ mb'.res.at = "verify") =>
            /\ mb'.res.ret = 0 - EBUSY
            /\ mb'.reg[i].ie = mb.reg[i].ie
            /\ ~ mb'.cl[i].attached
            /\ dt.owner # 0 => mb'.reg[i].config = 0
            /\ dt.owner = 0 => mb'.reg[i].config = mb.reg[i].config]_vars
\* a claiming client's startup failed in the verification on an instance
\* whose INT-ENABLE another entity had written: the claim is gone
C36_ClaimReleased ==
    /\ mb.res.at = "verify"
    /\ mb.chan[mb.res.i].owner # 0
    /\ mb.reg[mb.res.i].config = 0
    /\ mb.reg[mb.res.i].ie # 0

\* C37: shutdown clears the INT-ENABLE bits of the callbacks this client has
\* (event A at the receive index with a receive callback, event B at the ack
\* index with a tx-done callback) and no other bit; it clears CONFIG when the
\* client claimed the instance; the CONFIG of an instance the client does not
\* claim is not written by shutdown or by startup.
C37_OwnBitsOnly ==
    [][\A i \in MbInst :
        /\ MbFree(i) =>
            LET cl == mb.cl[i]
                a == IF cl.rx_callback THEN HPSC_MBOX_INT_A(rcv_int_idx) ELSE 0
                b == IF cl.tx_done THEN HPSC_MBOX_INT_B(ack_int_idx) ELSE 0
            IN  /\ mb'.reg[i].ie = BitClear(BitClear(mb.reg[i].ie, a), b)
                /\ mb'.reg[i].config = IF mb.chan[i].owner # 0 THEN 0
                                       ELSE mb.reg[i].config
        /\ \A dt \in DtArgs, cl \in MbClients, accept \in BOOLEAN :
            (MbRequest(i, dt, cl, accept) /\ dt.owner = 0) =>
                mb'.reg[i].config = mb.reg[i].config]_vars

\* C38: a pass of the interrupt handler over an instance up-calls it exactly
\* when the event of the interrupt is set in its EVENT-CAUSE and INT-ENABLE
\* has the bit that routes the event to the bank's index (bit 2i for event A
\* at index i, bit 2i+1 for event B); the event is cleared exactly then, and
\* nothing else of the bank changes; a scan visits the instances in order,
\* each once, so no instance is up-called twice in one interrupt.
C38_RoutedOnly ==
    /\ [][MbIsrStep =>
            LET i == mb.scan.i
                e == mb.scan.event
                idx == IF e = HPSC_MBOX_EVENT_A THEN rcv_int_idx ELSE ack_int_idx
                bit == 2 * idx + (IF e = HPSC_MBOX_EVENT_A THEN 0 ELSE 1)
                pending == (mb.reg[i].cause \div e) % 2 = 1
                routed == (mb.reg[i].ie \div (2 ^ bit)) % 2 = 1
            IN  /\ mb'.calls = IF pending /\ routed THEN Append(mb.calls, i) ELSE mb.calls
                /\ mb'.reg[i].cause = IF pending /\ routed THEN mb.reg[i].cause - e
                                      ELSE mb.reg[i].cause
                /\ mb'.reg[i].ie = mb.reg[i].ie
                /\ mb'.reg[i].config = mb.reg[i].config
                /\ \A j \in MbInst \ {i} : mb'.reg[j] = mb.reg[j]
                /\ IF i = NumChans - 1 THEN mb'.scan.pc = "idle"
                   ELSE mb'.scan.pc = "scan" /\ mb'.scan.i = i + 1]_vars
    /\ [](\A j, k \in 1..Len(mb.calls) : j < k => mb.calls[j] < mb.calls[k])
    /\ [](mb.scan.pc = "scan" => \A k \in 1..Len(mb.calls) : mb.calls[k] < mb.scan.i)
\* a scan for event A has passed instance 0, whose event A is set but not
\* routed (its client has no receive callback), and up-called instance 1
C38_SkippedAndCalled ==
    /\ mb.scan.pc = "idle" /\ mb.calls = << 1 >>
    /\ HasBit(mb.reg[0].cause, HPSC_MBOX_EVENT_A)
    /\ ~ HasBit(mb.reg[0].ie, HPSC_MBOX_INT_A(rcv_int_idx))
    /\ mb.cl[0].attached
    /\ ~ HasBit(mb.reg[1].cause, HPSC_MBOX_EVENT_A)

C40_StopThenUnregister ==
    /\ kt.wakes <= 1
    /\ kt.after <= 1
    /\ kt.pc \notin {"none", "exited"} => "SHMEM" \in handlers
    /\ kt.rm = "done" => kt.pc = "exited" /\ "SHMEM" \notin handlers
\* the stop came between the test of the loop and the test of is_new: the
\* task dispatched one more message, woke once, exited, and the transport was
\* then unregistered
C40_OneMoreThenGone ==
    /\ kt.rm = "done" /\ kt.pc = "exited"
    /\ kt.after = 1 /\ kt.wakes = 1
    /\ "SHMEM" \notin handlers
====
